---- MODULE Spec2Model ----
(***************************************************************************)
(* The chunked voxel world of mcc: the chunk store (voxel_world.c), the    *)
(* streaming pass around the observer, terrain generation of a loaded      *)
(* chunk (world_generation.c) and the per-frame mesh/cull/sort stage       *)
(* (voxel_renderer.c).                                                     *)
(*                                                                         *)
(* A Chunk* is a slot index of world.chunks; NULL is the absent pointer.   *)
(* A Vector3 is a record of integer-valued floats: every int that becomes  *)
(* a float goes through FloatOfInt, which rounds to a 24-bit mantissa as   *)
(* the C conversion does.                                                  *)
(***************************************************************************)
EXTENDS Integers, Sequences, FiniteSets, TLC

(***************************************************************************)
(* Program constants (voxel_types.h).                                      *)
(***************************************************************************)
CHUNK_SIZE == 16
WORLD_HEIGHT == 128
RENDER_DISTANCE == 8
MAX_CHUNKS == 256
WATER_LEVEL == 62

BLOCK_AIR == 0
BLOCK_GRASS == 1
BLOCK_DIRT == 2
BLOCK_STONE == 3
BLOCK_WATER == 8
BLOCK_OAK_LOG == 9
BLOCK_OAK_LEAVES == 11
BLOCK_GLASS == 97
BLOCK_ICE == 134
BLOCK_COUNT == 145

NULL == -1

\* the range of a C int
INT_MAX == 2147483647
INT_MIN == -INT_MAX - 1

Slots == 0 .. (MAX_CHUNKS - 1)

(***************************************************************************)
(* Bounds of the model.                                                    *)
(***************************************************************************)
\* calls explored after construction: with every operation enabled, on a
\* moving observer, and on hand-made loads and edits
MaxSteps == 2
MaxStreamSteps == 3
MaxEditSteps == 3

\* The cells of a chunk's 16 x 128 x 16 grid that the model stores: the
\* corner columns at the water line, two cells of column (0, 0) above the
\* terrain, where a tree of that column has its trunk or foliage and where
\* there is air otherwise, and the cell of that column at the top of the
\* world.  Every other cell of a loaded chunk holds
\* what GenerateChunk wrote, since SetBlock is only given positions that
\* fall on these cells; the chunk keeps the trunk heights its generation
\* drew (treeHeights), from which those cells are computed.
GridLocals == {0, CHUNK_SIZE - 1}
GridYs == {WATER_LEVEL}
CanopyCells == {<<0, WATER_LEVEL + 6, 0>>, <<0, WATER_LEVEL + 7, 0>>}
TopCells == {<<0, WORLD_HEIGHT - 1, 0>>}
GridCells ==
    {<<x, y, z>> : x \in GridLocals, y \in GridYs, z \in GridLocals}
        \cup CanopyCells \cup TopCells

VARIABLES
    chunks,          \* world.chunks: slot -> Chunk
    chunkCount,      \* world.chunkCount
    playerPosition,  \* world.playerPosition
    randCalls,       \* calls of rand() made so far by the process
    last,            \* the last call made on the world and what it returned
    steps,           \* calls made so far
    overflow,        \* what a signed int expression that overflows yields
    game             \* the statics of the gameplay screen and its player

vars == <<chunks, chunkCount, playerPosition, randCalls, last, steps, overflow, game>>

(***************************************************************************)
(* Numeric helpers.                                                        *)
(***************************************************************************)
Abs(n) == IF n < 0 THEN -n ELSE n

Min(S) == CHOOSE m \in S : \A n \in S : m <= n

Max(S) == CHOOSE m \in S : \A n \in S : m >= n

\* TLC computes a definition where it is first read.  The loops below are run
\* as two halves, and read something of the first half's result before they
\* start the second: the iterations are then evaluated in program order and
\* to a small depth.
Done(v) == v = v

(***************************************************************************)
(* C int arithmetic.  A sum, difference or product that leaves             *)
(* INT_MIN .. INT_MAX is undefined: it yields the two's complement value   *)
(* in a build that wraps, and some other int in a build that does not;     *)
(* `overflow` says which, for the build the program runs as.               *)
(***************************************************************************)
TwosComplement == [wraps |-> TRUE, value |-> 0]

Overflows ==
    {TwosComplement} \cup {[wraps |-> FALSE, value |-> v] : v \in {0, CHUNK_SIZE, INT_MIN}}

Overflowed(wrapped) == IF overflow.wraps THEN wrapped ELSE overflow.value

\* a + b; a sum that does not fit is reduced modulo 2^32 in a build that wraps
IntAdd(a, b) ==
    LET fits == IF b >= 0 THEN a <= INT_MAX - b ELSE a >= INT_MIN - b
        wrapped == IF b >= 0 THEN (a - INT_MAX - 1) + (b - INT_MAX - 1)
                   ELSE (a + INT_MAX + 1) + (b + INT_MAX + 1)
    IN IF fits THEN a + b ELSE Overflowed(wrapped)

\* a - b; a difference that does not fit is reduced modulo 2^32 in a build that wraps
IntSub(a, b) ==
    LET fits == IF b <= 0 THEN a <= INT_MAX + b ELSE a >= INT_MIN + b
        wrapped == IF b <= 0 THEN (a - INT_MAX - 1) - (b + INT_MAX + 1)
                   ELSE (a + INT_MAX + 1) - (b - INT_MAX - 1)
    IN IF fits THEN a - b ELSE Overflowed(wrapped)

\* the chunk coordinates c for which c * CHUNK_SIZE fits
ChunkSpan == (INT_MAX \div CHUNK_SIZE) + 1

\* c * CHUNK_SIZE
IntMulChunk(c) ==
    IF c >= -ChunkSpan /\ c < ChunkSpan THEN c * CHUNK_SIZE
    ELSE LET m == c % (2 * ChunkSpan)
         IN Overflowed(IF m >= ChunkSpan THEN (m - ChunkSpan - ChunkSpan) * CHUNK_SIZE
                       ELSE m * CHUNK_SIZE)

(***************************************************************************)
(* Floats.  The floats met are integers; a float is carried as that        *)
(* integer, and the one float beyond INT_MAX that an int converts to,      *)
(* 2^31, is carried as FloatTop.                                           *)
(***************************************************************************)
FloatTop == INT_MAX

\* the spacing of floats around magnitude a: 1 below 2^24, doubling above
RECURSIVE FloatUlp(_, _)
FloatUlp(a, q) == IF a \div q < 16777216 THEN q ELSE FloatUlp(a, 2 * q)

\* (float)n of a C int: nearest float, ties to the even mantissa
FloatOfInt(n) ==
    LET a == IF n = INT_MIN THEN INT_MAX ELSE Abs(n)
        q == FloatUlp(a, 1)
        lo == (a \div q) * q
        r == a - lo
        up == IF 2 * r > q \/ (2 * r = q /\ (lo \div q) % 2 = 1)
                 THEN (IF lo > INT_MAX - q THEN FloatTop ELSE lo + q)
                 ELSE lo
    IN IF n >= 0 THEN up
       ELSE IF up = FloatTop THEN INT_MIN ELSE -up

\* (int)floor(f / CHUNK_SIZE): dividing a float by 16 is exact, and \div is
\* floor division
FloorDivChunk(f) ==
    IF f = FloatTop THEN ChunkSpan ELSE f \div CHUNK_SIZE

(***************************************************************************)
(* voxel_types.h: coordinate utilities and block properties.               *)
(***************************************************************************)
Vec3(x, y, z) == [x |-> x, y |-> y, z |-> z]

\* (Vector3){position.x, position.y, position.z}
Vector3OfBlockPos(position) ==
    Vec3(FloatOfInt(position.x), FloatOfInt(position.y), FloatOfInt(position.z))

WorldToChunk(worldPos) ==
    [x |-> FloorDivChunk(worldPos.x), z |-> FloorDivChunk(worldPos.z)]

ChunkToWorld(chunkPos) ==
    Vec3(FloatOfInt(IntMulChunk(chunkPos.x)), 0, FloatOfInt(IntMulChunk(chunkPos.z)))

ChunkPosEqual(a, b) == a.x = b.x /\ a.z = b.z

\* Distances are kept squared: sqrtf is monotone and exact enough to keep
\* the order of the integers met here (below 2^22), so d1 > d2 and d <= r
\* are decided by the squares.  A difference is cut at DistClamp so that the
\* square stays a 32-bit value; anything that far is beyond every radius.
DistClamp == 4096

ClampDiff(d) == IF Abs(d) > DistClamp THEN DistClamp ELSE Abs(d)

Distance2DSq(a, b) ==
    LET dx == ClampDiff(a.x - b.x)
        dz == ClampDiff(a.z - b.z)
    IN dx * dx + dz * dz

Vector3DistanceSq(a, b) ==
    LET dx == ClampDiff(a.x - b.x)
        dy == ClampDiff(a.y - b.y)
        dz == ClampDiff(a.z - b.z)
    IN dx * dx + dy * dy + dz * dz

\* IsBlockSolid that takes only the ids of the enum for blocks
IsBlockSolidEnumOnly(block) ==
    block \in 1 .. (BLOCK_COUNT - 1) /\ block # BLOCK_WATER

IsBlockSolid(block) == block # BLOCK_AIR /\ block # BLOCK_WATER

\* the stained glasses are the 16 ids after BLOCK_GLASS, the leaves are
\* every third id from BLOCK_OAK_LEAVES
GlassBlocks == BLOCK_GLASS .. (BLOCK_GLASS + 16)
LeavesBlocks == {BLOCK_OAK_LEAVES + 3 * k : k \in 0 .. 3}

\* IsBlockTransparent without the ice
IsBlockTransparentNoIce(block) ==
    \/ block = BLOCK_AIR
    \/ block = BLOCK_WATER
    \/ block \in GlassBlocks
    \/ block \in LeavesBlocks

IsBlockTransparent(block) ==
    \/ block = BLOCK_AIR
    \/ block = BLOCK_WATER
    \/ block \in GlassBlocks
    \/ block \in LeavesBlocks
    \/ block = BLOCK_ICE

BlockNeedsAlphaBlending(block) ==
    \/ block \in GlassBlocks
    \/ block \in LeavesBlocks
    \/ block = BLOCK_ICE
    \/ block = BLOCK_WATER

(***************************************************************************)
(* world_generation.c: the terrain written into a chunk that is loaded.    *)
(***************************************************************************)
\* GetTerrainHeight is WATER_LEVEL plus four octaves of float noise.  The
\* noise of a column is a fixed function of its coordinates; the model keeps
\* that (the same column always gets the same height) and stands a small
\* integer pattern in for the float value, wide enough to put water, dirt
\* and stone at the water line.  The noise is taken at (float)x * frequency:
\* beyond 2^24 neighbouring columns share one float and the height steps
\* from one group of columns to the next, where nearer columns differ by
\* two blocks at most.  There the pattern is flat ground one block above the
\* water with a ridge six blocks higher on local columns 8 .. 11.
TerrainNoise(x, z) ==
    IF x > 16777216 \/ x < -16777216
       THEN IF (x % CHUNK_SIZE) \in 8 .. 11 THEN 7 ELSE 1
       ELSE (((x % 11) + 3 * (z % 11)) % 11) - 5

GetTerrainHeight(x, z) == WATER_LEVEL + TerrainNoise(x, z)

\* the layer loops with the submerged surface block on top of every column
TerrainBlockDirtTop(worldX, y, worldZ) ==
    LET terrainHeight == GetTerrainHeight(worldX, worldZ)
        height == IF terrainHeight < 0 THEN 0
                  ELSE IF terrainHeight >= WORLD_HEIGHT THEN WORLD_HEIGHT - 1
                  ELSE terrainHeight
    IN IF y <= height
          THEN IF y < height - 3 THEN BLOCK_STONE ELSE BLOCK_DIRT
          ELSE IF y <= WATER_LEVEL /\ y < WORLD_HEIGHT THEN BLOCK_WATER
               ELSE BLOCK_AIR

\* the layer loops of GenerateChunk for one cell of column (worldX, worldZ)
TerrainBlock(worldX, y, worldZ) ==
    LET terrainHeight == GetTerrainHeight(worldX, worldZ)
        height == IF terrainHeight < 0 THEN 0
                  ELSE IF terrainHeight >= WORLD_HEIGHT THEN WORLD_HEIGHT - 1
                  ELSE terrainHeight
    IN IF y <= height
          THEN IF y < height - 3 THEN BLOCK_STONE
               ELSE IF y < height THEN BLOCK_DIRT
               ELSE IF height > WATER_LEVEL THEN BLOCK_GRASS ELSE BLOCK_DIRT
          ELSE IF y <= WATER_LEVEL /\ y < WORLD_HEIGHT THEN BLOCK_WATER
               ELSE BLOCK_AIR

\* the column height GenerateChunk clamps to the world
TerrainTop(worldX, worldZ) ==
    LET terrainHeight == GetTerrainHeight(worldX, worldZ)
    IN IF terrainHeight < 0 THEN 0
       ELSE IF terrainHeight >= WORLD_HEIGHT THEN WORLD_HEIGHT - 1
       ELSE terrainHeight

\* ShouldPlaceTree thresholds two noise values of the column.  The model
\* stands a sparse fixed pattern in for them: two columns of the first row
\* of a chunk, far enough apart that their trees do not touch.
TreeLocals == << <<0, 0>>, <<12, 0>> >>

ShouldPlaceTree(x, z) ==
    \E k \in 1 .. Len(TreeLocals) :
        x % CHUNK_SIZE = TreeLocals[k][1] /\ z % CHUNK_SIZE = TreeLocals[k][2]

\* PlaceTree without the bounds checks on trunk and foliage
PlaceTreeUnclipped(x, y, z, treeHeight) ==
    {<<x, y + i, z>> : i \in 0 .. (treeHeight - 1)}
        \cup {<<x + d[1], y + treeHeight - 1 + d[2], z + d[3]>> :
                 d \in (-1 .. 1) \X (0 .. 2) \X (-1 .. 1)}

\* the cells of chunk->blocks PlaceTree(chunk, x, y, z) writes when it draws
\* trunk height treeHeight: the trunk below the top of the world, and of the
\* 3x3x3 foliage the cells inside the chunk
PlaceTree(x, y, z, treeHeight) ==
    {<<x, y + i, z>> : i \in {j \in 0 .. (treeHeight - 1) : y + j < WORLD_HEIGHT}}
        \cup {<<x + d[1], y + treeHeight - 1 + d[2], z + d[3]>> :
                 d \in {e \in (-1 .. 1) \X (0 .. 2) \X (-1 .. 1) :
                          /\ x + e[1] >= 0 /\ x + e[1] < CHUNK_SIZE
                          /\ z + e[3] >= 0 /\ z + e[3] < CHUNK_SIZE
                          /\ y + treeHeight - 1 + e[2] >= 0
                          /\ y + treeHeight - 1 + e[2] < WORLD_HEIGHT}}

\* the columns of a chunk on which GenerateChunk calls PlaceTree, in the
\* order of its loops: grass on top (a column above the water line) and
\* ShouldPlaceTree
TreeSites(position) ==
    SelectSeq(TreeLocals,
        LAMBDA c :
            LET worldX == IntAdd(IntMulChunk(position.x), c[1])
                worldZ == IntAdd(IntMulChunk(position.z), c[2])
            IN TerrainTop(worldX, worldZ) > WATER_LEVEL /\ ShouldPlaceTree(worldX, worldZ))

\* rand(): the values the C library returns, in order, when the program
\* never calls srand (the stream of seed 1); the model repeats them after
\* the last
RandStream ==
    <<1804289383, 846930886, 1681692777, 1714636915,
      1957747793, 424238335, 719885386, 1649760492>>

rand(calls) == RandStream[(calls % Len(RandStream)) + 1]

\* the trunk heights PlaceTree draws for the trees of a chunk generated
\* after `calls` calls of rand()
TreeHeights(position, calls) ==
    [k \in 1 .. Len(TreeSites(position)) |-> 4 + (rand(calls + k - 1) % 3)]

\* What PlaceTree on column `site`, drawing trunk height treeHeight, leaves
\* in cell (x, y, z) of the chunk: a trunk block, a block of the 3x3x3
\* foliage (which leaves trunk blocks alone), or nothing (BLOCK_AIR here).
\* `layered` says that the layers of the cell's own column cover y: they are
\* written when the loops reach that column, over the foliage of a tree
\* placed on an earlier column.
TreeBlock(position, site, treeHeight, x, y, z, layered) ==
    LET base == TerrainTop(IntAdd(IntMulChunk(position.x), site[1]),
                           IntAdd(IntMulChunk(position.z), site[2])) + 1
        top == base + treeHeight - 1
        after == site[1] > x \/ (site[1] = x /\ site[2] >= z)
    IN IF site = <<x, z>> /\ y >= base /\ y <= top THEN BLOCK_OAK_LOG
       ELSE IF /\ Abs(x - site[1]) <= 1 /\ Abs(z - site[2]) <= 1
               /\ y >= top /\ y <= top + 2
               /\ (after \/ ~layered)
            THEN BLOCK_OAK_LEAVES
       ELSE BLOCK_AIR

\* the block GenerateChunk leaves in cell (x, y, z) of a chunk whose trees
\* have the trunk heights given: what a tree wrote there, or else the layers
\* of the cell's column
GeneratedBlock(position, treeHeights, x, y, z) ==
    LET sites == TreeSites(position)
        worldX == IntAdd(IntMulChunk(position.x), x)
        worldZ == IntAdd(IntMulChunk(position.z), z)
        layered == y <= TerrainTop(worldX, worldZ) \/ y <= WATER_LEVEL
        written == {TreeBlock(position, sites[k], treeHeights[k], x, y, z, layered) :
                       k \in 1 .. Len(treeHeights)}
    IN IF BLOCK_OAK_LOG \in written THEN BLOCK_OAK_LOG
       ELSE IF BLOCK_OAK_LEAVES \in written THEN BLOCK_OAK_LEAVES
       ELSE TerrainBlock(worldX, y, worldZ)

\* GenerateChunk run after `calls` calls of rand()
GenerateChunk(chunk, calls) ==
    LET treeHeights == TreeHeights(chunk.position, calls)
    IN [chunk EXCEPT
           !.treeHeights = treeHeights,
           !.blocks = [c \in GridCells |->
                         GeneratedBlock(chunk.position, treeHeights, c[1], c[2], c[3])],
           !.needsRegen = TRUE,
           !.isLoaded = TRUE]

\* the calls of rand() made once a chunk at the position has been generated
RandAfter(position, calls) == (calls + Len(TreeSites(position))) % Len(RandStream)

(***************************************************************************)
(* voxel_world.c: the chunk store.  A world is the record                  *)
(* [chunks, chunkCount, playerPosition], carried together with randCalls,  *)
(* the state of rand() that generation advances; an operation that returns *)
(* a value yields [world, ret].                                            *)
(***************************************************************************)
\* a Mesh: the quads <<cell, face>> uploaded into it, and whether it is
\* still loaded
Mesh(quads) == [live |-> TRUE, quads |-> quads]
UnloadMesh(mesh) == [mesh EXCEPT !.live = FALSE]

\* the meshes of a chunk that get UnloadMesh called on them: by UnloadChunk
\* and UnloadVoxelWorld when the chunk is unloaded, or else by
\* GenerateChunkMesh before it builds the chunk again
ReleasedBuffers(chunk, unloading) ==
    IF unloading
       THEN {b \in {"mesh"} : chunk.hasMesh /\ chunk.vertexCount > 0}
                \cup {b \in {"transparentMesh"} :
                         chunk.hasMesh /\ chunk.transparentVertexCount > 0}
       ELSE {b \in {"mesh"} : chunk.hasMesh}

\* the meshes of a chunk that UnloadChunk and UnloadVoxelWorld unload
UnloadChunkMeshes(chunk) ==
    [chunk EXCEPT
        !.mesh = IF chunk.hasMesh /\ chunk.vertexCount > 0 THEN UnloadMesh(@) ELSE @,
        !.transparentMesh =
            IF chunk.hasMesh /\ chunk.transparentVertexCount > 0 THEN UnloadMesh(@) ELSE @,
        !.hasMesh = FALSE]

InitChunk ==
    [position |-> [x |-> 0, z |-> 0],
     blocks |-> [c \in GridCells |-> BLOCK_AIR],
     treeHeights |-> << >>,
     needsRegen |-> FALSE,
     isLoaded |-> FALSE,
     isVisible |-> FALSE,
     mesh |-> UnloadMesh(Mesh({})),
     transparentMesh |-> UnloadMesh(Mesh({})),
     hasMesh |-> FALSE,
     vertexCount |-> 0,
     triangleCount |-> 0,
     transparentVertexCount |-> 0,
     transparentTriangleCount |-> 0]

InitVoxelWorld ==
    [chunks |-> [i \in Slots |-> InitChunk],
     chunkCount |-> 0,
     playerPosition |-> Vec3(0, 70, 0),
     randCalls |-> 0]

UnloadVoxelWorld(world) ==
    [world EXCEPT
        !.chunks = [i \in Slots |->
                      [(IF world.chunks[i].isLoaded
                           THEN UnloadChunkMeshes(world.chunks[i])
                           ELSE world.chunks[i]) EXCEPT !.isLoaded = FALSE]],
        !.chunkCount = 0]

\* the first slot that is loaded and holds the position, or NULL
GetChunk(world, position) ==
    LET found == {i \in Slots : /\ world.chunks[i].isLoaded
                               /\ ChunkPosEqual(world.chunks[i].position, position)}
    IN IF found = {} THEN NULL ELSE Min(found)

\* a LoadChunk that claims the slot as it is and generates nothing
ClaimSlotKeepGrid(world, i, position) ==
    [world EXCEPT
        !.chunks[i] = [@ EXCEPT !.position = position, !.isLoaded = TRUE,
                                !.needsRegen = TRUE, !.hasMesh = FALSE,
                                !.isVisible = FALSE],
        !.chunkCount = @ + 1]

\* a LoadChunk that leaves the visibility flag and the counts of the slot
\* as it finds them
ClaimSlotKeepCounts(world, i, position) ==
    [world EXCEPT
        !.chunks[i] = GenerateChunk([@ EXCEPT
                          !.position = position,
                          !.isLoaded = TRUE,
                          !.needsRegen = TRUE,
                          !.hasMesh = FALSE], world.randCalls),
        !.randCalls = RandAfter(position, @),
        !.chunkCount = @ + 1]

\* the slot LoadChunk claims for a position: chunk fields reset, terrain
\* generated
ClaimSlot(world, i, position) ==
    [world EXCEPT
        !.chunks[i] = GenerateChunk([@ EXCEPT
                          !.position = position,
                          !.isLoaded = TRUE,
                          !.needsRegen = TRUE,
                          !.hasMesh = FALSE,
                          !.isVisible = FALSE,
                          !.vertexCount = 0,
                          !.triangleCount = 0,
                          !.transparentVertexCount = 0,
                          !.transparentTriangleCount = 0], world.randCalls),
        !.randCalls = RandAfter(position, @),
        !.chunkCount = @ + 1]

\* LoadChunk without the lookup of an existing chunk
LoadChunkNoLookup(world, position) ==
    LET free == {i \in Slots : ~world.chunks[i].isLoaded}
    IN IF free = {} THEN [world |-> world, ret |-> NULL]
       ELSE [world |-> ClaimSlot(world, Min(free), position), ret |-> Min(free)]

\* LoadChunk that generates the terrain of an existing chunk again
LoadChunkRegenerate(world, position) ==
    LET existing == GetChunk(world, position)
    IN IF existing # NULL
          THEN [world |-> [world EXCEPT
                                !.chunks[existing] = GenerateChunk(@, world.randCalls),
                                !.randCalls = RandAfter(position, @)],
                ret |-> existing]
          ELSE LoadChunkNoLookup(world, position)

\* LoadChunk that takes slot 0 over when no slot is free
LoadChunkOverwrite(world, position) ==
    LET existing == GetChunk(world, position)
        free == {i \in Slots : ~world.chunks[i].isLoaded}
    IN IF existing # NULL THEN [world |-> world, ret |-> existing]
       ELSE IF free = {}
               THEN [world |-> [ClaimSlot(world, 0, position) EXCEPT
                                   !.chunkCount = world.chunkCount],
                     ret |-> 0]
       ELSE [world |-> ClaimSlot(world, Min(free), position), ret |-> Min(free)]

LoadChunk(world, position) ==
    LET existing == GetChunk(world, position)
        free == {i \in Slots : ~world.chunks[i].isLoaded}
    IN IF existing # NULL THEN [world |-> world, ret |-> existing]
       ELSE IF free = {} THEN [world |-> world, ret |-> NULL]
       ELSE [world |-> ClaimSlot(world, Min(free), position), ret |-> Min(free)]

\* the fields UnloadChunk resets in a slot
ReleaseSlot(chunk) ==
    [UnloadChunkMeshes(chunk) EXCEPT
        !.isLoaded = FALSE,
        !.needsRegen = FALSE,
        !.isVisible = FALSE,
        !.vertexCount = 0,
        !.triangleCount = 0,
        !.transparentVertexCount = 0,
        !.transparentTriangleCount = 0]

\* UnloadChunk that leaves chunkCount as it was
UnloadChunkKeepCount(world, index) ==
    IF index < 0 \/ index >= MAX_CHUNKS THEN world
    ELSE IF ~world.chunks[index].isLoaded THEN world
    ELSE [world EXCEPT !.chunks[index] = ReleaseSlot(@)]

\* UnloadChunk without the test that the slot is loaded
UnloadChunkUnchecked(world, index) ==
    IF index < 0 \/ index >= MAX_CHUNKS THEN world
    ELSE [world EXCEPT !.chunks[index] = ReleaseSlot(@), !.chunkCount = @ - 1]

UnloadChunk(world, index) ==
    IF index < 0 \/ index >= MAX_CHUNKS THEN world
    ELSE IF ~world.chunks[index].isLoaded THEN world
    ELSE [world EXCEPT !.chunks[index] = ReleaseSlot(@), !.chunkCount = @ - 1]

\* an evict radius inside the load radius
EvictDistanceInner == (RENDER_DISTANCE * CHUNK_SIZE) \div 2

\* maxDistance = RENDER_DISTANCE * CHUNK_SIZE * 1.5f
EvictDistance == (RENDER_DISTANCE * CHUNK_SIZE * 3) \div 2

\* the body of the loop of UnloadDistantChunks for slot i
UnloadIfDistant(world, pos, i) ==
    IF /\ world.chunks[i].isLoaded
       /\ Distance2DSq(pos, ChunkToWorld(world.chunks[i].position))
            > EvictDistance * EvictDistance
       THEN UnloadChunk(world, i)
       ELSE world

\* the loop over slots lo .. hi in index order, as its two halves one after
\* the other
RECURSIVE UnloadDistantRange(_, _, _, _)
UnloadDistantRange(world, pos, lo, hi) ==
    IF lo > hi THEN world
    ELSE IF lo = hi THEN UnloadIfDistant(world, pos, lo)
    ELSE LET mid == (lo + hi) \div 2
             firstHalf == UnloadDistantRange(world, pos, lo, mid)
         IN IF Done(firstHalf.chunkCount)
               THEN UnloadDistantRange(firstHalf, pos, mid + 1, hi)
               ELSE firstHalf

UnloadDistantChunks(world, pos) == UnloadDistantRange(world, pos, 0, MAX_CHUNKS - 1)

\* IsValidBlockPosition without the lower bound
IsValidBlockPositionBelowTop(position) == position.y < WORLD_HEIGHT

IsValidBlockPosition(position) == position.y >= 0 /\ position.y < WORLD_HEIGHT

\* the local index GetBlock and SetBlock compute on one axis
LocalIndex(coord, chunkCoord) ==
    LET local == IntSub(coord, IntMulChunk(chunkCoord))
    IN IF local < 0 THEN local + CHUNK_SIZE ELSE local

\* the range test on y alone
LocalInRangeHeightOnly(localX, y, localZ) == ~ (y < 0 \/ y >= WORLD_HEIGHT)

LocalInRange(localX, y, localZ) ==
    ~ (\/ localX < 0 \/ localX >= CHUNK_SIZE
       \/ localZ < 0 \/ localZ >= CHUNK_SIZE
       \/ y < 0 \/ y >= WORLD_HEIGHT)

\* chunk->blocks[x][y][z]: a stored cell, or what generation left in a cell
\* the model does not store
ChunkBlock(chunk, x, y, z) ==
    IF <<x, y, z>> \in GridCells THEN chunk.blocks[<<x, y, z>>]
    ELSE GeneratedBlock(chunk.position, chunk.treeHeights, x, y, z)

GetBlock(world, position) ==
    IF ~IsValidBlockPosition(position) THEN BLOCK_AIR
    ELSE LET chunkPos == WorldToChunk(Vector3OfBlockPos(position))
             chunk == GetChunk(world, chunkPos)
             localX == LocalIndex(position.x, chunkPos.x)
             localZ == LocalIndex(position.z, chunkPos.z)
         IN IF chunk = NULL THEN BLOCK_AIR
            ELSE IF ~LocalInRange(localX, position.y, localZ) THEN BLOCK_AIR
            ELSE ChunkBlock(world.chunks[chunk], localX, position.y, localZ)

\* a GetBlock that loads the chunk it looks the position up in, as SetBlock
\* does
GetBlockLoading(world, position) ==
    IF ~IsValidBlockPosition(position) THEN world
    ELSE LET chunkPos == WorldToChunk(Vector3OfBlockPos(position))
         IN IF GetChunk(world, chunkPos) = NULL
               THEN LoadChunk(world, chunkPos).world
               ELSE world

\* the world GetBlock leaves behind: it reads through GetChunk and the chunk
\* pointer and writes through neither, on each of its four returns
GetBlockWorld(world, position) ==
    IF ~IsValidBlockPosition(position) THEN world
    ELSE LET chunkPos == WorldToChunk(Vector3OfBlockPos(position))
             chunk == GetChunk(world, chunkPos)
             localX == LocalIndex(position.x, chunkPos.x)
             localZ == LocalIndex(position.z, chunkPos.z)
         IN IF chunk = NULL THEN world
            ELSE IF ~LocalInRange(localX, position.y, localZ) THEN world
            ELSE world

\* if (ptr) ptr->needsRegen = true, for the chunk at a neighbouring position
MarkNeighbor(world, doIt, position) ==
    LET ptr == GetChunk(world, position)
    IN IF doIt /\ ptr # NULL
          THEN [world EXCEPT !.chunks[ptr].needsRegen = TRUE]
          ELSE world

\* SetBlock that marks the chunk it writes and no neighbour
SetBlockOwnChunkOnly(world, position, block) ==
    IF ~IsValidBlockPosition(position) THEN world
    ELSE LET chunkPos == WorldToChunk(Vector3OfBlockPos(position))
             found == GetChunk(world, chunkPos)
             loaded == IF found = NULL THEN LoadChunk(world, chunkPos)
                       ELSE [world |-> world, ret |-> found]
             chunk == loaded.ret
             localX == LocalIndex(position.x, chunkPos.x)
             localZ == LocalIndex(position.z, chunkPos.z)
         IN IF chunk = NULL THEN loaded.world
            ELSE IF ~LocalInRange(localX, position.y, localZ) THEN loaded.world
            ELSE [loaded.world EXCEPT
                     !.chunks[chunk].blocks[<<localX, position.y, localZ>>] = block,
                     !.chunks[chunk].needsRegen = TRUE]

SetBlock(world, position, block) ==
    IF ~IsValidBlockPosition(position) THEN world
    ELSE LET chunkPos == WorldToChunk(Vector3OfBlockPos(position))
             found == GetChunk(world, chunkPos)
             loaded == IF found = NULL THEN LoadChunk(world, chunkPos)
                       ELSE [world |-> world, ret |-> found]
             chunk == loaded.ret
             localX == LocalIndex(position.x, chunkPos.x)
             localZ == LocalIndex(position.z, chunkPos.z)
             written == [loaded.world EXCEPT
                            !.chunks[chunk].blocks[<<localX, position.y, localZ>>] = block,
                            !.chunks[chunk].needsRegen = TRUE]
             w1 == MarkNeighbor(written, localX = 0,
                                [x |-> chunkPos.x - 1, z |-> chunkPos.z])
             w2 == MarkNeighbor(w1, localX = CHUNK_SIZE - 1,
                                [x |-> chunkPos.x + 1, z |-> chunkPos.z])
             w3 == MarkNeighbor(w2, localZ = 0,
                                [x |-> chunkPos.x, z |-> chunkPos.z - 1])
             w4 == MarkNeighbor(w3, localZ = CHUNK_SIZE - 1,
                                [x |-> chunkPos.x, z |-> chunkPos.z + 1])
         IN IF chunk = NULL THEN loaded.world
            ELSE IF ~LocalInRange(localX, position.y, localZ) THEN loaded.world
            ELSE w4

\* the scan of LoadChunksAroundPlayer from its k-th coordinate on: x is the
\* outer loop and z the inner one, each over -RENDER_DISTANCE .. RENDER_DISTANCE
ScanWidth == 2 * RENDER_DISTANCE + 1

\* the body of the loops without the distance test: the whole scan window
LoadIfInWindow(world, pos, playerChunk, k) ==
    LET chunkPos == [x |-> playerChunk.x + (k \div ScanWidth) - RENDER_DISTANCE,
                     z |-> playerChunk.z + (k % ScanWidth) - RENDER_DISTANCE]
    IN IF GetChunk(world, chunkPos) = NULL
          THEN LoadChunk(world, chunkPos).world
          ELSE world

\* the body of the loops for the k-th coordinate of the scan
LoadIfInRange(world, pos, playerChunk, k) ==
    LET chunkPos == [x |-> playerChunk.x + (k \div ScanWidth) - RENDER_DISTANCE,
                     z |-> playerChunk.z + (k % ScanWidth) - RENDER_DISTANCE]
        inRange == Distance2DSq(pos, ChunkToWorld(chunkPos))
                     <= (RENDER_DISTANCE * CHUNK_SIZE) * (RENDER_DISTANCE * CHUNK_SIZE)
    IN IF inRange /\ GetChunk(world, chunkPos) = NULL
          THEN LoadChunk(world, chunkPos).world
          ELSE world

\* scan coordinates lo .. hi, in scan order
RECURSIVE LoadAroundRange(_, _, _, _, _)
LoadAroundRange(world, pos, playerChunk, lo, hi) ==
    IF lo > hi THEN world
    ELSE IF lo = hi THEN LoadIfInRange(world, pos, playerChunk, lo)
    ELSE LET mid == (lo + hi) \div 2
             firstHalf == LoadAroundRange(world, pos, playerChunk, lo, mid)
         IN IF Done(firstHalf.chunkCount)
               THEN LoadAroundRange(firstHalf, pos, playerChunk, mid + 1, hi)
               ELSE firstHalf

LoadChunksAroundPlayer(world, pos) ==
    LoadAroundRange(world, pos, WorldToChunk(pos), 0, ScanWidth * ScanWidth - 1)

\* UpdateVoxelWorld without the pass that unloads distant chunks
UpdateVoxelWorldLoadOnly(world, pos) ==
    LoadChunksAroundPlayer([world EXCEPT !.playerPosition = pos], pos)

UpdateVoxelWorld(world, pos) ==
    UnloadDistantChunks(
        LoadChunksAroundPlayer([world EXCEPT !.playerPosition = pos], pos), pos)


(***************************************************************************)
(* voxel_renderer.c: mesh build, cull and sort of a frame.                 *)
(***************************************************************************)
\* faceOffsets, FACE_FRONT .. FACE_BOTTOM
faceOffsets ==
    << <<0, 0, 1>>, <<0, 0, -1>>, <<-1, 0, 0>>, <<1, 0, 0>>, <<0, 1, 0>>, <<0, -1, 0>> >>

\* The switch of GetBlockTextureUV.  TextureCases are its cases that name one
\* texture for every face, <<block, textureName>>; FaceTextureCases are the
\* cases that choose by faceIndex: the textures of FACE_TOP, of FACE_BOTTOM,
\* of FACE_FRONT and of the remaining faces.

TextureCases ==
    <<<<2, "dirt">>, <<3, "stone">>, <<4, "cobblestone">>, <<5, "bedrock">>,
    <<6, "sand">>, <<7, "gravel">>, <<8, "water_still">>,
    <<10, "oak_planks">>, <<11, "oak_leaves">>, <<13, "birch_planks">>,
    <<14, "birch_leaves">>, <<16, "acacia_planks">>, <<17, "acacia_leaves">>,
    <<19, "dark_oak_planks">>, <<20, "dark_oak_leaves">>,
    <<21, "stone_bricks">>, <<22, "mossy_stone_bricks">>,
    <<24, "mossy_cobblestone">>, <<25, "smooth_stone">>, <<26, "andesite">>,
    <<27, "granite">>, <<28, "diorite">>, <<30, "chiseled_sandstone">>,
    <<31, "cut_sandstone">>, <<32, "red_sand">>, <<33, "red_sandstone">>,
    <<34, "coal_ore">>, <<35, "iron_ore">>, <<36, "gold_ore">>,
    <<37, "diamond_ore">>, <<38, "redstone_ore">>, <<39, "emerald_ore">>,
    <<40, "lapis_ore">>, <<41, "iron_block">>, <<42, "gold_block">>,
    <<43, "diamond_block">>, <<44, "emerald_block">>,
    <<45, "redstone_block">>, <<46, "lapis_block">>, <<47, "coal_block">>,
    <<48, "white_wool">>, <<49, "orange_wool">>, <<50, "magenta_wool">>,
    <<51, "light_blue_wool">>, <<52, "yellow_wool">>, <<53, "lime_wool">>,
    <<54, "pink_wool">>, <<55, "gray_wool">>, <<56, "light_gray_wool">>,
    <<57, "cyan_wool">>, <<58, "purple_wool">>, <<59, "blue_wool">>,
    <<60, "brown_wool">>, <<61, "green_wool">>, <<62, "red_wool">>,
    <<63, "black_wool">>, <<97, "glass">>, <<98, "white_stained_glass">>,
    <<99, "orange_stained_glass">>, <<100, "magenta_stained_glass">>,
    <<101, "light_blue_stained_glass">>, <<102, "yellow_stained_glass">>,
    <<103, "lime_stained_glass">>, <<104, "pink_stained_glass">>,
    <<105, "gray_stained_glass">>, <<106, "light_gray_stained_glass">>,
    <<107, "cyan_stained_glass">>, <<108, "purple_stained_glass">>,
    <<109, "blue_stained_glass">>, <<110, "brown_stained_glass">>,
    <<111, "green_stained_glass">>, <<112, "red_stained_glass">>,
    <<113, "black_stained_glass">>, <<114, "bricks">>,
    <<117, "furnace_side">>, <<118, "chest">>, <<119, "glowstone">>,
    <<120, "obsidian">>, <<121, "netherrack">>, <<122, "soul_sand">>,
    <<123, "end_stone">>, <<124, "purpur_block">>,
    <<129, "quartz_block_side">>, <<132, "packed_ice">>, <<133, "blue_ice">>,
    <<134, "ice">>, <<135, "snow">>, <<139, "melon_side">>,
    <<140, "pumpkin_side">> >>

FaceTextureCases ==
    << [block |-> 1, top |-> "grass_block_top", bottom |-> "dirt",
        front |-> "grass_block_side", side |-> "grass_block_side"],
       [block |-> 9, top |-> "oak_log_top", bottom |-> "oak_log_top",
        front |-> "oak_log", side |-> "oak_log"],
       [block |-> 12, top |-> "birch_log_top", bottom |-> "birch_log_top",
        front |-> "birch_log", side |-> "birch_log"],
       [block |-> 15, top |-> "acacia_log_top", bottom |-> "acacia_log_top",
        front |-> "acacia_log", side |-> "acacia_log"],
       [block |-> 18, top |-> "dark_oak_log_top", bottom |-> "dark_oak_log_top",
        front |-> "dark_oak_log", side |-> "dark_oak_log"],
       [block |-> 29, top |-> "sandstone_top", bottom |-> "sandstone_bottom",
        front |-> "sandstone", side |-> "sandstone"],
       [block |-> 115, top |-> "oak_planks", bottom |-> "oak_planks",
        front |-> "bookshelf", side |-> "bookshelf"],
       [block |-> 116, top |-> "crafting_table_top", bottom |-> "oak_planks",
        front |-> "crafting_table_side", side |-> "crafting_table_side"],
       [block |-> 138, top |-> "hay_block_top", bottom |-> "hay_block_top",
        front |-> "hay_block_side", side |-> "hay_block_side"],
       [block |-> 141, top |-> "pumpkin_side", bottom |-> "pumpkin_side",
        front |-> "jack_o_lantern", side |-> "pumpkin_side"],
       [block |-> 142, top |-> "cactus_top", bottom |-> "cactus_bottom",
        front |-> "cactus_side", side |-> "cactus_side"] >>

FACE_FRONT == 0
FACE_TOP == 4
FACE_BOTTOM == 5

\* The texture name GetBlockTextureUV looks up for a face of a block:
\* "stone" unless a case of the switch assigns another.
GetBlockTextureUV(block, faceIndex) ==
    LET FaceTexture(case) ==
            IF faceIndex = FACE_TOP THEN case.top
            ELSE IF faceIndex = FACE_BOTTOM THEN case.bottom
            ELSE IF faceIndex = FACE_FRONT THEN case.front
            ELSE case.side
    IN
    IF \E k \in DOMAIN FaceTextureCases : FaceTextureCases[k].block = block
    THEN FaceTexture(FaceTextureCases[CHOOSE k \in DOMAIN FaceTextureCases :
                                         FaceTextureCases[k].block = block])
    ELSE IF \E k \in DOMAIN TextureCases : TextureCases[k][1] = block
    THEN TextureCases[CHOOSE k \in DOMAIN TextureCases : TextureCases[k][1] = block][2]
    ELSE "stone"

\* ShouldRenderFace that takes only air for transparent
ShouldRenderFaceAirOnly(world, position) == GetBlock(world, position) = BLOCK_AIR

ShouldRenderFace(world, position) == IsBlockTransparent(GetBlock(world, position))

\* the block position across a face of cell c of a chunk
NeighborPos(chunk, c, face) ==
    [x |-> IntAdd(IntAdd(IntMulChunk(chunk.position.x), c[1]), faceOffsets[face][1]),
     y |-> c[2] + faceOffsets[face][2],
     z |-> IntAdd(IntAdd(IntMulChunk(chunk.position.z), c[3]), faceOffsets[face][3])]

\* the quads <<cell, face>> of a chunk's stored cells that the block loops
\* of GenerateChunkMesh add to an array: the block is not air and the face
\* is to be rendered
EmittedQuads(world, chunk) ==
    {q \in GridCells \X (1 .. 6) :
        /\ chunk.blocks[q[1]] # BLOCK_AIR
        /\ ShouldRenderFace(world, NeighborPos(chunk, q[1], q[2]))}

\* the array each quad goes to, chosen by its block
SplitQuads(chunk, quads) ==
    [opaque |-> {q \in quads : ~BlockNeedsAlphaBlending(chunk.blocks[q[1]])},
     transparent |-> {q \in quads : BlockNeedsAlphaBlending(chunk.blocks[q[1]])}]

\* the block loops with a single array for every block
EmitFacesOneBuffer(world, chunk) ==
    [opaque |-> EmittedQuads(world, chunk), transparent |-> {}]

\* The block loops of GenerateChunkMesh over the stored cells: the quads
\* that go to the opaque and to the transparent arrays.  Each quad is four
\* vertices and six indices of its array.
EmitFaces(world, chunk) == SplitQuads(chunk, EmittedQuads(world, chunk))

\* The rest of GenerateChunkMesh, given the quads emitted: the opaque mesh
\* of a chunk that has one is unloaded at the start, and the mesh and the
\* counts of a buffer are written only when the build emitted a face into
\* it.
StoreMeshes(chunk, emitted) ==
    LET opaqueVertexIndex == 4 * Cardinality(emitted.opaque)
        opaqueIndexIndex == 6 * Cardinality(emitted.opaque)
        transparentVertexIndex == 4 * Cardinality(emitted.transparent)
        transparentIndexIndex == 6 * Cardinality(emitted.transparent)
    IN [chunk EXCEPT
           !.mesh = IF opaqueVertexIndex > 0 THEN Mesh(emitted.opaque)
                    ELSE IF chunk.hasMesh THEN UnloadMesh(@) ELSE @,
           !.vertexCount = IF opaqueVertexIndex > 0 THEN opaqueVertexIndex ELSE @,
           !.triangleCount = IF opaqueVertexIndex > 0 THEN opaqueIndexIndex \div 3 ELSE @,
           !.transparentMesh =
               IF transparentVertexIndex > 0 THEN Mesh(emitted.transparent) ELSE @,
           !.transparentVertexCount =
               IF transparentVertexIndex > 0 THEN transparentVertexIndex ELSE @,
           !.transparentTriangleCount =
               IF transparentVertexIndex > 0 THEN transparentIndexIndex \div 3 ELSE @,
           !.hasMesh = opaqueVertexIndex > 0 \/ transparentVertexIndex > 0]

\* The six indices GenerateChunkMesh stores for a quad, once AddFaceToMesh
\* has moved *vertexIndex past the quad's four vertices.  baseIndex and the
\* elements of the index array are unsigned short: a value is kept modulo
\* 2^16.
QuadIndices(vertexIndex) ==
    LET baseIndex == (vertexIndex - 4) % 65536
    IN <<baseIndex, (baseIndex + 1) % 65536, (baseIndex + 2) % 65536,
         baseIndex, (baseIndex + 2) % 65536, (baseIndex + 3) % 65536>>

\* the chunk after GenerateChunkMesh, with the faces taken over the stored
\* cells
GenerateChunkMesh(world, i) ==
    [world EXCEPT !.chunks[i] = StoreMeshes(@, EmitFaces(world, world.chunks[i]))]

\* UpdateChunkMesh that skips a chunk the cull has hidden
UpdateChunkMeshVisibleOnly(world, i) ==
    IF ~world.chunks[i].needsRegen \/ ~world.chunks[i].isVisible THEN world
    ELSE [GenerateChunkMesh(world, i) EXCEPT !.chunks[i].needsRegen = FALSE]

UpdateChunkMesh(world, i) ==
    IF ~world.chunks[i].needsRegen THEN world
    ELSE [GenerateChunkMesh(world, i) EXCEPT !.chunks[i].needsRegen = FALSE]

\* Vector3Distance(camera.position, chunkCenter) <= RENDER_DISTANCE * CHUNK_SIZE
IsChunkInFrustum(chunk, camera) ==
    LET chunkWorldPos == ChunkToWorld(chunk.position)
        chunkCenter == Vec3(chunkWorldPos.x + CHUNK_SIZE \div 2,
                            chunkWorldPos.y + WORLD_HEIGHT \div 2,
                            chunkWorldPos.z + CHUNK_SIZE \div 2)
    IN Vector3DistanceSq(camera.position, chunkCenter)
         <= (RENDER_DISTANCE * CHUNK_SIZE) * (RENDER_DISTANCE * CHUNK_SIZE)

\* the loop of FrustumCullChunks over slots lo .. hi, in order
RECURSIVE FrustumCullRange(_, _, _, _)
FrustumCullRange(world, camera, lo, hi) ==
    IF lo > hi THEN world
    ELSE IF lo = hi
         THEN IF world.chunks[lo].isLoaded
                 THEN [world EXCEPT !.chunks[lo].isVisible =
                                       IsChunkInFrustum(world.chunks[lo], camera)]
                 ELSE world
    ELSE LET mid == (lo + hi) \div 2
             firstHalf == FrustumCullRange(world, camera, lo, mid)
         IN IF Done(firstHalf.chunkCount)
               THEN FrustumCullRange(firstHalf, camera, mid + 1, hi)
               ELSE firstHalf

FrustumCullChunks(world, camera) == FrustumCullRange(world, camera, 0, MAX_CHUNKS - 1)

\* the body of the inner loop of SortChunksByDistance at j
SwapIfFarther(cs, pos, j) ==
    IF ~cs[j].isLoaded \/ ~cs[j + 1].isLoaded THEN cs
    ELSE IF Distance2DSq(pos, ChunkToWorld(cs[j].position))
              > Distance2DSq(pos, ChunkToWorld(cs[j + 1].position))
         THEN [cs EXCEPT ![j] = cs[j + 1], ![j + 1] = cs[j]]
         ELSE cs

\* the inner loop for j in lo .. hi, in order
RECURSIVE BubblePass(_, _, _, _)
BubblePass(cs, pos, lo, hi) ==
    IF lo > hi THEN cs
    ELSE IF lo = hi THEN SwapIfFarther(cs, pos, lo)
    ELSE LET mid == (lo + hi) \div 2
             firstHalf == BubblePass(cs, pos, lo, mid)
         IN IF Done(firstHalf[lo].isLoaded)
               THEN BubblePass(firstHalf, pos, mid + 1, hi)
               ELSE firstHalf

\* The outer loop for i in lo .. hi, in order: pass i runs j over
\* 0 .. MAX_CHUNKS - i - 2.  A j below the first or above the last pair of
\* adjacent loaded slots takes the `continue` of the inner loop, so a pass is
\* run over first .. last only; a swap exchanges two loaded slots, which
\* leaves first and last the same for every pass.
RECURSIVE BubbleRange(_, _, _, _, _, _)
BubbleRange(cs, pos, first, final, lo, hi) ==
    IF lo > hi THEN cs
    ELSE IF lo = hi
         THEN BubblePass(cs, pos, first,
                         IF MAX_CHUNKS - lo - 2 < final THEN MAX_CHUNKS - lo - 2 ELSE final)
    ELSE LET mid == (lo + hi) \div 2
             firstHalf == BubbleRange(cs, pos, first, final, lo, mid)
         IN IF Done(firstHalf[lo].isLoaded)
               THEN BubbleRange(firstHalf, pos, first, final, mid + 1, hi)
               ELSE firstHalf

SortChunksByDistance(world, pos) ==
    LET cs == world.chunks
        pairs == {j \in 0 .. (MAX_CHUNKS - 2) : cs[j].isLoaded /\ cs[j + 1].isLoaded}
    IN IF pairs = {} THEN world
       ELSE [world EXCEPT
                !.chunks = BubbleRange(cs, pos, Min(pairs), Max(pairs), 0, MAX_CHUNKS - 2)]

\* the mesh loop of RenderVoxelWorld over slots lo .. hi, in order
RECURSIVE UpdateMeshesRange(_, _, _)
UpdateMeshesRange(world, lo, hi) ==
    IF lo > hi THEN world
    ELSE IF lo = hi
         THEN IF world.chunks[lo].isLoaded /\ world.chunks[lo].needsRegen
                 THEN UpdateChunkMesh(world, lo)
                 ELSE world
    ELSE LET mid == (lo + hi) \div 2
             firstHalf == UpdateMeshesRange(world, lo, mid)
         IN IF Done(firstHalf.chunkCount)
               THEN UpdateMeshesRange(firstHalf, mid + 1, hi)
               ELSE firstHalf

\* the draw passes read the world and change nothing in it
RenderVoxelWorld(world, camera) ==
    SortChunksByDistance(
        UpdateMeshesRange(FrustumCullChunks(world, camera), 0, MAX_CHUNKS - 1),
        camera.position)

(***************************************************************************)
(* The calls a client makes on the world, with inputs drawn from small     *)
(* sets.  `last` keeps the call just made: its arguments, what it          *)
(* returned, and three facts of the world it was made on - the slot of the *)
(* chunk it aimed at (NULL if that was absent), chunkCount, and the slots  *)
(* that were loaded and due for a mesh rebuild.                            *)
(***************************************************************************)
World ==
    [chunks |-> chunks, chunkCount |-> chunkCount, playerPosition |-> playerPosition,
     randCalls |-> randCalls]

ChunkPosOf(x, z) == [x |-> x, z |-> z]
BlockPosOf(x, y, z) == [x |-> x, y |-> y, z |-> z]
Edit(position, block) == [position |-> position, block |-> block]

\* the chunk coordinate GetBlock and SetBlock look a block position up in
ChunkOfBlock(position) == WorldToChunk(Vector3OfBlockPos(position))

\* a chunk beyond 2^24, and the x of its origin, which (float) rounds down to
\* the origin of the chunk before it
WideChunkX == 16777216 + 1
WideX == WideChunkX * CHUNK_SIZE

\* a chunk origin beyond the eviction radius of every observer position
FarChunkX == 40

Origin == Vec3(0, 70, 0)
East == Vec3(4 * CHUNK_SIZE, 70, 0)
PlayerPositions == {Origin, East}

LoadCoords == {ChunkPosOf(0, 0), ChunkPosOf(-1, 0), ChunkPosOf(WideChunkX, 0)}
UnloadIndices == {-1, 0, 1, MAX_CHUNKS}
Edits ==
    {Edit(BlockPosOf(0, WATER_LEVEL, 0), BLOCK_STONE),
     Edit(BlockPosOf(0, WATER_LEVEL, 0), BLOCK_AIR),
     Edit(BlockPosOf(-1, WATER_LEVEL, 0), BLOCK_GLASS),
     Edit(BlockPosOf(WideX, WATER_LEVEL, 0), BLOCK_STONE),
     Edit(BlockPosOf(0, WORLD_HEIGHT, 0), BLOCK_STONE)}

StreamCoords == {ChunkPosOf(FarChunkX, 0)}
StreamIndices == {0}
StreamEdits == {Edit(BlockPosOf(FarChunkX * CHUNK_SIZE, WATER_LEVEL, 0), BLOCK_STONE)}

\* one more call made, by the same build
Advance ==
    /\ steps' = steps + 1
    /\ overflow' = overflow
    /\ game' = game

SetWorld(world) ==
    /\ chunks' = world.chunks
    /\ chunkCount' = world.chunkCount
    /\ playerPosition' = world.playerPosition
    /\ randCalls' = world.randCalls

Call(op, arg, ret, target) ==
    [op |-> op, arg |-> arg, ret |-> ret, target |-> target,
     count |-> chunkCount,
     dirty |-> {i \in Slots : chunks[i].isLoaded /\ chunks[i].needsRegen}]

\* a slot UnloadDistantChunks has to evict for an observer at pos, if any
Distant(pos) ==
    LET far == {i \in Slots : /\ chunks[i].isLoaded
                              /\ Distance2DSq(pos, ChunkToWorld(chunks[i].position))
                                   > EvictDistance * EvictDistance}
    IN IF far = {} THEN NULL ELSE Min(far)

\* the statics of screen_gameplay.c before any handler has run
GameStatics ==
    [gameInitialized |-> FALSE, gamePaused |-> FALSE, pauseMenuSelection |-> 0,
     finishScreen |-> 0, position |-> Vec3(0, 0, 0), inventoryOpen |-> FALSE,
     calls |-> <<>>, underfoot |-> TRUE, sessions |-> 0]

Init ==
    /\ chunks = InitVoxelWorld.chunks
    /\ chunkCount = InitVoxelWorld.chunkCount
    /\ playerPosition = InitVoxelWorld.playerPosition
    /\ randCalls = InitVoxelWorld.randCalls
    /\ last = [op |-> "InitVoxelWorld", arg |-> NULL, ret |-> NULL, target |-> NULL,
               count |-> 0, dirty |-> {}]
    /\ steps = 0
    /\ overflow = TwosComplement
    /\ game = GameStatics

DoInitVoxelWorld(bound) ==
    /\ steps < bound
    /\ SetWorld([InitVoxelWorld EXCEPT !.randCalls = randCalls])
    /\ last' = Call("InitVoxelWorld", NULL, NULL, NULL)
    /\ Advance

DoUnloadVoxelWorld(bound) ==
    /\ steps < bound
    /\ SetWorld(UnloadVoxelWorld(World))
    /\ last' = Call("UnloadVoxelWorld", NULL, NULL, NULL)
    /\ Advance

DoLoadChunk(coords, bound) ==
    /\ steps < bound
    /\ \E position \in coords :
          LET r == LoadChunk(World, position)
          IN /\ SetWorld(r.world)
             /\ last' = Call("LoadChunk", position, r.ret, GetChunk(World, position))
    /\ Advance

DoUnloadChunk(indices, bound) ==
    /\ steps < bound
    /\ \E index \in indices :
          /\ SetWorld(UnloadChunk(World, index))
          /\ last' = Call("UnloadChunk", index, NULL,
                          IF index \in Slots /\ chunks[index].isLoaded THEN index ELSE NULL)
    /\ Advance

DoSetBlock(edits, bound) ==
    /\ steps < bound
    /\ \E e \in edits :
          /\ SetWorld(SetBlock(World, e.position, e.block))
          /\ last' = Call("SetBlock", e, NULL, GetChunk(World, ChunkOfBlock(e.position)))
    /\ Advance

\* GetBlock reads the world and changes nothing in it
DoGetBlock(positions, bound) ==
    /\ steps < bound
    /\ \E position \in positions :
          /\ SetWorld(GetBlockWorld(World, position))
          /\ last' = Call("GetBlock", position, GetBlock(World, position),
                          GetChunk(World, ChunkOfBlock(position)))
    /\ Advance

DoUpdateVoxelWorld(positions, bound) ==
    /\ steps < bound
    /\ \E pos \in positions :
          /\ SetWorld(UpdateVoxelWorld(World, pos))
          /\ last' = Call("UpdateVoxelWorld", pos, NULL, Distant(pos))
    /\ Advance

DoSortChunksByDistance(positions, bound) ==
    /\ steps < bound
    /\ \E pos \in positions :
          /\ SetWorld(SortChunksByDistance(World, pos))
          /\ last' = Call("SortChunksByDistance", pos, NULL, NULL)
    /\ Advance

DoRenderVoxelWorld(positions, bound) ==
    /\ steps < bound
    /\ \E pos \in positions :
          /\ SetWorld(RenderVoxelWorld(World, [position |-> pos]))
          /\ last' = Call("RenderVoxelWorld", pos, NULL, NULL)
    /\ Advance

\* every operation of the store and the renderer, in any order
Next ==
    \/ DoInitVoxelWorld(MaxSteps)
    \/ DoUnloadVoxelWorld(MaxSteps)
    \/ DoLoadChunk(LoadCoords, MaxSteps)
    \/ DoUnloadChunk(UnloadIndices, MaxSteps)
    \/ DoSetBlock(Edits, MaxSteps)
    \/ DoUpdateVoxelWorld(PlayerPositions, MaxSteps)
    \/ DoSortChunksByDistance({Origin}, MaxSteps)
    \/ DoRenderVoxelWorld({Origin}, MaxSteps)

Spec == Init /\ [][Next]_vars

\* an observer that moves, with loads, edits and unloads by hand in between
StreamNext ==
    \/ DoUpdateVoxelWorld(PlayerPositions, MaxStreamSteps)
    \/ DoLoadChunk(StreamCoords, MaxStreamSteps)
    \/ DoUnloadChunk(StreamIndices, MaxStreamSteps)
    \/ DoSetBlock(StreamEdits, MaxStreamSteps)

StreamSpec == Init /\ [][StreamNext]_vars

\* loads, edits and unloads by hand, and frames drawn from the origin
EditNext ==
    \/ DoLoadChunk(LoadCoords, MaxEditSteps)
    \/ DoUnloadChunk(UnloadIndices, MaxEditSteps)
    \/ DoSetBlock(Edits, MaxEditSteps)
    \/ DoSortChunksByDistance({East}, MaxEditSteps)
    \/ DoRenderVoxelWorld({Origin}, MaxEditSteps)

EditSpec == Init /\ [][EditNext]_vars

\* an edit in the corner column of chunk (0, 0) first, which loads the chunk
\* on demand and places a stone in its water or takes the water out, and
\* then loads, edits, unloads and frames
ReloadNext ==
    \/ steps = 0 /\ DoSetBlock({e \in Edits : e.position = BlockPosOf(0, WATER_LEVEL, 0)},
                                MaxEditSteps)
    \/ steps > 0 /\ EditNext

ReloadSpec == Init /\ [][ReloadNext]_vars

\* chunk (0, 0) is loaded and a frame builds its mesh, and then the world is
\* unloaded, and chunks are loaded, edited, unloaded and drawn
MaxLifeSteps == 4

LifeNext ==
    \/ steps = 0 /\ DoLoadChunk({ChunkPosOf(0, 0)}, MaxLifeSteps)
    \/ steps = 1 /\ DoRenderVoxelWorld({Origin}, MaxLifeSteps)
    \/ steps > 1 /\ DoUnloadVoxelWorld(MaxLifeSteps)
    \/ steps > 1 /\ DoLoadChunk(LoadCoords, MaxLifeSteps)
    \/ steps > 1 /\ DoUnloadChunk(UnloadIndices, MaxLifeSteps)
    \/ steps > 1 /\ DoSetBlock(Edits, MaxLifeSteps)
    \/ steps > 1 /\ DoUpdateVoxelWorld(PlayerPositions, MaxLifeSteps)
    \/ steps > 1 /\ DoRenderVoxelWorld({Origin}, MaxLifeSteps)

LifeSpec == Init /\ [][LifeNext]_vars

\* the world after construction, as any build
InitAnyBuild ==
    /\ chunks = InitVoxelWorld.chunks
    /\ chunkCount = InitVoxelWorld.chunkCount
    /\ playerPosition = InitVoxelWorld.playerPosition
    /\ randCalls = InitVoxelWorld.randCalls
    /\ last = [op |-> "InitVoxelWorld", arg |-> NULL, ret |-> NULL, target |-> NULL,
               count |-> 0, dirty |-> {}]
    /\ steps = 0
    /\ overflow \in Overflows
    /\ game = GameStatics

\* block reads and writes at the ends of the int range, below zero, beyond
\* 2^24 and outside the height of the world, on chunks loaded by hand
MaxBlockSteps == 2

EdgeChunkX == ChunkSpan

BlockCoords == {ChunkPosOf(0, 0), ChunkPosOf(-1, -2), ChunkPosOf(EdgeChunkX, 0)}

BlockPositions ==
    {BlockPosOf(0, WATER_LEVEL, 0),
     BlockPosOf(-1, WATER_LEVEL, -CHUNK_SIZE - 1),
     BlockPosOf(WideX, WATER_LEVEL, 0),
     BlockPosOf(INT_MAX, WATER_LEVEL, 0),
     BlockPosOf(INT_MAX - 2 * CHUNK_SIZE, WATER_LEVEL, 0),
     BlockPosOf(INT_MIN, WATER_LEVEL, 0),
     BlockPosOf(0, -1, 0),
     BlockPosOf(0, WORLD_HEIGHT, 0),
     BlockPosOf(-1, INT_MIN, 0),
     BlockPosOf(INT_MAX, INT_MAX, 0)}

BlockEdits == {Edit(position, BLOCK_GLASS) : position \in BlockPositions}

BlockNext ==
    \/ DoLoadChunk(BlockCoords, MaxBlockSteps)
    \/ DoSetBlock(BlockEdits, MaxBlockSteps)
    \/ DoGetBlock(BlockPositions, MaxBlockSteps)

BlockSpec == InitAnyBuild /\ [][BlockNext]_vars

\* the two block predicates of the mesh build applied to every block id of
\* the enum, and to the ids next to its ends
MaxBlockTypeSteps == 1

BlockTypes == -1 .. BLOCK_COUNT

DoBlockNeedsAlphaBlending(blocks, bound) ==
    /\ steps < bound
    /\ \E block \in blocks :
          last' = Call("BlockNeedsAlphaBlending", block, BlockNeedsAlphaBlending(block), NULL)
    /\ UNCHANGED <<chunks, chunkCount, playerPosition, randCalls>>
    /\ Advance

DoIsBlockTransparent(blocks, bound) ==
    /\ steps < bound
    /\ \E block \in blocks :
          last' = Call("IsBlockTransparent", block, IsBlockTransparent(block), NULL)
    /\ UNCHANGED <<chunks, chunkCount, playerPosition, randCalls>>
    /\ Advance

DoIsBlockSolid(blocks, bound) ==
    /\ steps < bound
    /\ \E block \in blocks :
          last' = Call("IsBlockSolid", block, IsBlockSolid(block), NULL)
    /\ UNCHANGED <<chunks, chunkCount, playerPosition, randCalls>>
    /\ Advance

DoGetBlockTextureUV(blocks, bound) ==
    /\ steps < bound
    /\ \E block \in blocks, faceIndex \in 0 .. 5 :
          last' = Call("GetBlockTextureUV", <<block, faceIndex>>,
                       GetBlockTextureUV(block, faceIndex), NULL)
    /\ UNCHANGED <<chunks, chunkCount, playerPosition, randCalls>>
    /\ Advance

BlockTypeNext ==
    \/ DoBlockNeedsAlphaBlending(BlockTypes, MaxBlockTypeSteps)
    \/ DoIsBlockTransparent(BlockTypes, MaxBlockTypeSteps)

BlockTypeSpec == Init /\ [][BlockTypeNext]_vars

\* the whole block catalog: the three predicates and the texture lookup of
\* every face, applied to the same ids
BlockCatalogNext ==
    \/ DoBlockNeedsAlphaBlending(BlockTypes, MaxBlockTypeSteps)
    \/ DoIsBlockTransparent(BlockTypes, MaxBlockTypeSteps)
    \/ DoIsBlockSolid(BlockTypes, MaxBlockTypeSteps)
    \/ DoGetBlockTextureUV(BlockTypes, MaxBlockTypeSteps)

BlockCatalogSpec == Init /\ [][BlockCatalogNext]_vars

\* calls explored on the index arrays of a mesh build
MaxQuadSteps == 1

\* GenerateChunkMesh adds its quad number `quad` to an array that holds the
\* quads before it, four vertices each
DoAddFaceToMesh(quads, bound) ==
    /\ steps < bound
    /\ \E quad \in quads :
          LET vertexIndex == 4 * quad + 4
          IN last' = Call("AddFaceToMesh", quad, QuadIndices(vertexIndex), NULL)
    /\ UNCHANGED <<chunks, chunkCount, playerPosition, randCalls>>
    /\ Advance

\* the quads of one array of a mesh build, by their number in the array: the
\* first hundred, those around the last vertex a 16-bit index can name, and
\* the last quad an array has room for
IndexSpec ==
    Init /\ [][DoAddFaceToMesh((0 .. 99) \cup {16383, 16384, 16385, 32768,
                                   CHUNK_SIZE * CHUNK_SIZE * WORLD_HEIGHT * 6 - 1},
                               MaxQuadSteps)]_vars

\* frames drawn by an observer on the ground and one high above it, over
\* chunks loaded and unloaded by hand and edits in the column at the origin
\* of chunk (1, 0), whose stored cells are dry land with air above
MaxFrameSteps == 4

High == Vec3(0, 200, 0)
Cameras == {Origin, High}

FrameCoords == {ChunkPosOf(0, 0), ChunkPosOf(1, 0), ChunkPosOf(6, 0)}
FrameIndices == {1}
FrameEdits ==
    {Edit(BlockPosOf(CHUNK_SIZE, WATER_LEVEL + 6, 0), BLOCK_GLASS),
     Edit(BlockPosOf(CHUNK_SIZE, WATER_LEVEL + 6, 0), BLOCK_AIR),
     Edit(BlockPosOf(CHUNK_SIZE, WATER_LEVEL + 6, 0), BLOCK_STONE),
     Edit(BlockPosOf(CHUNK_SIZE, WATER_LEVEL + 7, 0), BLOCK_STONE),
     Edit(BlockPosOf(CHUNK_SIZE, WORLD_HEIGHT - 1, 0), BLOCK_STONE)}

FrameNext ==
    \/ DoLoadChunk(FrameCoords, MaxFrameSteps)
    \/ DoUnloadChunk(FrameIndices, MaxFrameSteps)
    \/ DoSetBlock(FrameEdits, MaxFrameSteps)
    \/ DoSortChunksByDistance({Origin}, MaxFrameSteps)
    \/ DoRenderVoxelWorld(Cameras, MaxFrameSteps)

FrameSpec == Init /\ [][FrameNext]_vars

(***************************************************************************)
(* screen_gameplay.c: the handlers of the gameplay screen.  `game` holds   *)
(* the statics of the file and of the player what the handlers read: the   *)
(* position (the camera sits at eye height above it) and the inventory     *)
(* flag.  `calls` lists the callees of the last handler in the order it    *)
(* called them, `underfoot` says whether the chunk containing the player's *)
(* position was loaded when the last UpdatePlayer was called, and          *)
(* `sessions` counts the times InitGameplayScreen has initialised the      *)
(* world.                                                                  *)
(* The velocity the player integrates is an input: a tick moves the        *)
(* position by the displacement given.  framesCounter is written and       *)
(* never read, and is left out.  The screen is updated and drawn only      *)
(* between its InitGameplayScreen and its UnloadGameplayScreen.            *)
(***************************************************************************)
MaxScreenSteps == 3
MaxDrawSteps == 2
MaxKeySteps == 2
MaxGameSteps == 14

\* InitGameplayScreen without the load pass around the start position
DoInitGameplayScreenNoLoad(bound) ==
    /\ steps < bound
    /\ IF game.gameInitialized
          THEN /\ UNCHANGED <<chunks, chunkCount, playerPosition, randCalls>>
               /\ game' = [game EXCEPT !.finishScreen = 0, !.gamePaused = FALSE,
                                       !.pauseMenuSelection = 0, !.calls = <<>>]
          ELSE /\ SetWorld([InitVoxelWorld EXCEPT !.randCalls = randCalls])
               /\ game' = [game EXCEPT
                              !.finishScreen = 0, !.gamePaused = FALSE,
                              !.pauseMenuSelection = 0,
                              !.position = Vec3(0, 100, 0),
                              !.inventoryOpen = FALSE,
                              !.gameInitialized = TRUE,
                              !.sessions = @ + 1,
                              !.calls = <<"InitVoxelWorld", "InitPlayer",
                                          "InitVoxelRenderer">>]
    /\ last' = Call("InitGameplayScreen", NULL, ~game.gameInitialized, NULL)
    /\ steps' = steps + 1
    /\ overflow' = overflow

\* InitGameplayScreen; startPosition = {0, 100, 0}
DoInitGameplayScreen(bound) ==
    /\ steps < bound
    /\ IF game.gameInitialized
          THEN /\ UNCHANGED <<chunks, chunkCount, playerPosition, randCalls>>
               /\ game' = [game EXCEPT !.finishScreen = 0, !.gamePaused = FALSE,
                                       !.pauseMenuSelection = 0, !.calls = <<>>]
          ELSE /\ SetWorld(LoadChunksAroundPlayer(
                               [InitVoxelWorld EXCEPT !.randCalls = randCalls],
                               Vec3(0, 100, 0)))
               /\ game' = [game EXCEPT
                              !.finishScreen = 0, !.gamePaused = FALSE,
                              !.pauseMenuSelection = 0,
                              !.position = Vec3(0, 100, 0),
                              !.inventoryOpen = FALSE,
                              !.gameInitialized = TRUE,
                              !.sessions = @ + 1,
                              !.calls = <<"InitVoxelWorld", "InitPlayer",
                                          "LoadChunksAroundPlayer", "InitVoxelRenderer">>]
    /\ last' = Call("InitGameplayScreen", NULL, ~game.gameInitialized, NULL)
    /\ steps' = steps + 1
    /\ overflow' = overflow

\* UpdateGameplayScreen: the escape key, then the pause menu or a tick of
\* the game
DoUpdateGameplayScreen(inputs, bound) ==
    /\ steps < bound
    /\ game.gameInitialized
    /\ \E input \in inputs :
          LET toggles == input.key = "escape" /\ ~game.inventoryOpen
              inventoryOpen == game.inventoryOpen /\ input.key # "escape"
              gamePaused == IF toggles THEN ~game.gamePaused ELSE game.gamePaused
              selection == IF toggles THEN 0 ELSE game.pauseMenuSelection
              moved == IF input.key = "up" /\ selection > 0 THEN selection - 1
                       ELSE IF input.key = "down" /\ selection < 1 THEN selection + 1
                       ELSE selection
              inventoryAfter == IF input.key = "e" THEN ~inventoryOpen ELSE inventoryOpen
              updated == UpdateVoxelWorld(World, game.position)
          IN /\ IF gamePaused
                   THEN /\ UNCHANGED <<chunks, chunkCount, playerPosition, randCalls>>
                        /\ game' = [game EXCEPT
                                       !.inventoryOpen = inventoryOpen,
                                       !.pauseMenuSelection = moved,
                                       !.gamePaused = ~(input.key = "enter" /\ moved = 0),
                                       !.finishScreen =
                                           IF input.key = "enter" /\ moved = 1 THEN 1 ELSE @,
                                       !.calls = <<>>]
                   ELSE /\ SetWorld(updated)
                        /\ game' = [game EXCEPT
                                       !.gamePaused = FALSE,
                                       !.pauseMenuSelection = selection,
                                       !.inventoryOpen = inventoryAfter,
                                       !.underfoot =
                                           GetChunk(updated, WorldToChunk(game.position)) # NULL,
                                       !.position = Vec3(@.x + input.move.x,
                                                         @.y + input.move.y,
                                                         @.z + input.move.z),
                                       !.finishScreen =
                                           IF input.key = "enter" /\ ~inventoryAfter
                                           THEN 1 ELSE @,
                                       !.calls = <<"UpdateVoxelWorld", "UpdatePlayer">>]
             /\ last' = Call("UpdateGameplayScreen", input, NULL, NULL)
    /\ steps' = steps + 1
    /\ overflow' = overflow

\* DrawGameplayScreen: a frame from the player's camera, 1.62 above the
\* position, taken to the next whole block
DoDrawGameplayScreen(bound) ==
    /\ steps < bound
    /\ game.gameInitialized
    /\ SetWorld(RenderVoxelWorld(World,
           [position |-> Vec3(game.position.x, game.position.y + 2, game.position.z)]))
    /\ game' = [game EXCEPT !.calls = <<"RenderVoxelWorld">>]
    /\ last' = Call("DrawGameplayScreen", NULL, NULL, NULL)
    /\ steps' = steps + 1
    /\ overflow' = overflow

\* UnloadGameplayScreen
DoUnloadGameplayScreen(bound) ==
    /\ steps < bound
    /\ IF game.gameInitialized
          THEN /\ SetWorld(UnloadVoxelWorld(World))
               /\ game' = [game EXCEPT
                              !.gameInitialized = FALSE,
                              !.calls = <<"UnloadVoxelWorld", "UnloadVoxelRenderer">>]
          ELSE /\ UNCHANGED <<chunks, chunkCount, playerPosition, randCalls>>
               /\ game' = [game EXCEPT !.calls = <<>>]
    /\ last' = Call("UnloadGameplayScreen", NULL, game.gameInitialized, NULL)
    /\ steps' = steps + 1
    /\ overflow' = overflow

\* a session of the gameplay screen: the screen is entered, left and entered
\* again and keys are pressed in the first ticks, then the player walks.  A
\* tick has one key pressed and the player at rest, or no key and the player
\* moving 15 blocks west, less than a chunk edge.
GameNext ==
    \/ DoInitGameplayScreen(MaxScreenSteps)
    \/ DoUnloadGameplayScreen(MaxScreenSteps)
    \/ DoDrawGameplayScreen(MaxDrawSteps)
    \/ DoUpdateGameplayScreen(
           {[key |-> k, move |-> Vec3(0, 0, 0)] :
               k \in {"escape", "enter", "up", "down", "e"}},
           MaxKeySteps)
    \/ DoUpdateGameplayScreen(
           {[key |-> "none", move |-> Vec3(-(CHUNK_SIZE - 1), 0, 0)]}, MaxGameSteps)

GameSpec == Init /\ [][GameNext]_vars

(***************************************************************************)
(* Properties of the chunk store.                                          *)
(***************************************************************************)
LoadedSlots == {i \in Slots : chunks[i].isLoaded}

LoadedCoords == {chunks[i].position : i \in LoadedSlots}

\* the chunk a block position lies in: (floor(x / S), floor(z / S))
OwnerChunk(position) ==
    [x |-> position.x \div CHUNK_SIZE, z |-> position.z \div CHUNK_SIZE]

\* the positions GetBlock is asked about
ProbePositions ==
    {e.position : e \in Edits} \cup
    {BlockPosOf(0, -1, 0), BlockPosOf(CHUNK_SIZE - 1, WATER_LEVEL, CHUNK_SIZE - 1),
     BlockPosOf(1, WATER_LEVEL + 1, 1)}

\* the indices UnloadChunk is asked about
ProbeIndices == {-1, 0, 1, 2, MAX_CHUNKS - 1, MAX_CHUNKS}

\* C1: after any sequence of InitVoxelWorld, LoadChunk, UnloadChunk, SetBlock,
\* UpdateVoxelWorld and SortChunksByDistance calls no two loaded slots hold the
\* same chunk coordinate: the loaded slots hold as many distinct coordinates
\* as there are loaded slots.
C1_UniqueLoadedCoords == Cardinality(LoadedCoords) = Cardinality(LoadedSlots)

\* a LoadChunk of a coordinate that was loaded, in a world of several chunks
C1_Witness ==
    /\ last.op = "LoadChunk"
    /\ last.target # NULL
    /\ Cardinality(LoadedSlots) > 1

\* C2: chunkCount is the number of loaded slots, and lies in 0 .. MAX_CHUNKS.
C2_CountIsLoadedSlots ==
    /\ chunkCount = Cardinality(LoadedSlots)
    /\ chunkCount \in 0 .. MAX_CHUNKS

\* an UnloadChunk that released a loaded slot and left others loaded
C2_Witness ==
    /\ last.op = "UnloadChunk"
    /\ last.target # NULL
    /\ chunkCount = last.count - 1
    /\ chunkCount > 0

\* the chunk coordinates around the chunk of pos, one ring wider than
\* RENDER_DISTANCE
Around(pos) ==
    {ChunkPosOf(WorldToChunk(pos).x + dx, WorldToChunk(pos).z + dz) :
        dx \in -(RENDER_DISTANCE + 1) .. (RENDER_DISTANCE + 1),
        dz \in -(RENDER_DISTANCE + 1) .. (RENDER_DISTANCE + 1)}

InLoadRadius(pos, chunkPos) ==
    Distance2DSq(pos, ChunkToWorld(chunkPos))
        <= (RENDER_DISTANCE * CHUNK_SIZE) * (RENDER_DISTANCE * CHUNK_SIZE)

\* C3: when UpdateVoxelWorld(pos) returns, every chunk coordinate whose origin
\* lies within RENDER_DISTANCE * CHUNK_SIZE of pos is loaded.
C3_LoadRadiusLoaded ==
    last.op = "UpdateVoxelWorld" =>
        \A c \in Around(last.arg) :
            InLoadRadius(last.arg, c) => GetChunk(World, c) # NULL

C5_SetThenGet ==
    (last.op = "SetBlock" /\ IsValidBlockPosition(last.arg.position)) =>
        LET owner == GetChunk(World, OwnerChunk(last.arg.position))
        IN /\ GetBlock(World, last.arg.position) = last.arg.block
           /\ owner # NULL
           /\ chunks[owner].needsRegen

\* the chunk at position is absent, or due for a mesh rebuild
AbsentOrDirty(position) ==
    LET n == GetChunk(World, position)
    IN n # NULL => chunks[n].needsRegen

C7_GetBlockReadsOwner ==
    \A p \in ProbePositions :
        LET c == OwnerChunk(p)
            owner == GetChunk(World, c)
        IN GetBlock(World, p) =
              IF ~IsValidBlockPosition(p) \/ owner = NULL THEN BLOCK_AIR
              ELSE ChunkBlock(chunks[owner], p.x - c.x * CHUNK_SIZE, p.y,
                              p.z - c.z * CHUNK_SIZE)

\* C8: LoadChunk of a coordinate that is loaded returns the slot that holds it
\* and leaves the world as it was: chunkCount, every slot, the chunk's blocks,
\* needsRegen and mesh fields.
C8_LoadLoadedIsNoOp ==
    \A c \in LoadedCoords \cup LoadCoords :
        GetChunk(World, c) # NULL =>
            LoadChunk(World, c) = [world |-> World, ret |-> GetChunk(World, c)]

\* a LoadChunk of a loaded chunk that holds an edit and a mesh
C8_Witness ==
    /\ last.op = "LoadChunk"
    /\ last.target # NULL
    /\ last.ret = last.target
    /\ chunkCount = last.count
    /\ chunks[last.ret].hasMesh
    /\ chunks[last.ret].blocks[<<0, WATER_LEVEL, 0>>] = BLOCK_STONE

\* C9: with all MAX_CHUNKS slots loaded and c not among them, LoadChunk(c)
\* returns NULL and leaves the world unchanged; a SetBlock into an absent chunk
\* and the load pass return with the world unchanged too.
C9_FullWorldRejectsLoad ==
    (\A i \in Slots : chunks[i].isLoaded) =>
        /\ \A c \in StreamCoords \cup LoadCoords :
              GetChunk(World, c) = NULL =>
                  LoadChunk(World, c) = [world |-> World, ret |-> NULL]
        /\ \A e \in StreamEdits :
              GetChunk(World, ChunkOfBlock(e.position)) = NULL =>
                  SetBlock(World, e.position, e.block) = World
        /\ \A pos \in PlayerPositions : LoadChunksAroundPlayer(World, pos) = World

\* a LoadChunk of an absent coordinate on a full world
C9_Witness ==
    /\ last.op = "LoadChunk"
    /\ last.target = NULL
    /\ last.ret = NULL
    /\ last.count = MAX_CHUNKS
    /\ chunkCount = MAX_CHUNKS

\* C10: UnloadChunk on a slot that is not loaded, or with an index outside
\* 0 .. MAX_CHUNKS - 1, changes nothing in the world.
C10_UnloadAbsentIsNoOp ==
    \A index \in ProbeIndices :
        (index \notin Slots \/ ~chunks[index].isLoaded) =>
            UnloadChunk(World, index) = World

\* an UnloadChunk of a slot that was not loaded, beside a loaded one
C10_Witness ==
    /\ last.op = "UnloadChunk"
    /\ last.arg \in Slots
    /\ last.target = NULL
    /\ chunkCount = last.count
    /\ chunkCount > 0

(***************************************************************************)
(* Properties of block addressing.                                         *)
(***************************************************************************)
\* the index GetBlock and SetBlock compute for a position: local x, y, local z
BlockIndex(position) ==
    <<LocalIndex(position.x, ChunkOfBlock(position).x), position.y,
      LocalIndex(position.z, ChunkOfBlock(position).z)>>

\* GetBlock reaches its read of chunk->blocks
GetBlockIndexes(world, position) ==
    /\ IsValidBlockPosition(position)
    /\ GetChunk(world, ChunkOfBlock(position)) # NULL
    /\ LocalInRange(BlockIndex(position)[1], position.y, BlockIndex(position)[3])

\* SetBlock reaches its write of chunk->blocks
SetBlockIndexes(world, position) ==
    /\ IsValidBlockPosition(position)
    /\ LoadChunk(world, ChunkOfBlock(position)).ret # NULL
    /\ LocalInRange(BlockIndex(position)[1], position.y, BlockIndex(position)[3])

\* an index of BlockType blocks[CHUNK_SIZE][WORLD_HEIGHT][CHUNK_SIZE]
IndexInGrid(index) ==
    /\ index[1] \in 0 .. (CHUNK_SIZE - 1)
    /\ index[2] \in 0 .. (WORLD_HEIGHT - 1)
    /\ index[3] \in 0 .. (CHUNK_SIZE - 1)

\* the position of the GetBlock or SetBlock call just made
LastPosition == IF last.op = "SetBlock" THEN last.arg.position ELSE last.arg

\* C11: the chunk coordinate and local index GetBlock and SetBlock compute for
\* a position p are c = (floor(p.x / S), floor(p.z / S)) and
\* l = (p.x - c.x * S, p.z - c.z * S), that is l = (p.x mod S, p.z mod S):
\* 0 <= l < S on both axes and c * S + l = p.
C11_ChunkLocalRoundTrip ==
    (last.op \in {"GetBlock", "SetBlock"} /\ IsValidBlockPosition(LastPosition)) =>
        /\ ChunkOfBlock(LastPosition) = OwnerChunk(LastPosition)
        /\ BlockIndex(LastPosition) =
              <<LastPosition.x % CHUNK_SIZE, LastPosition.y, LastPosition.z % CHUNK_SIZE>>

\* p.y < 0 or p.y >= WORLD_HEIGHT
OutsideHeight(p) == p.y < 0 \/ p.y >= WORLD_HEIGHT

\* C12: SetBlock(p, X) with p.y < 0 or p.y >= WORLD_HEIGHT leaves the whole
\* world as it was, and GetBlock(p) returns air.
C12_InvalidHeightIsNoOp ==
    \A p \in BlockPositions :
        OutsideHeight(p) =>
            /\ \A block \in {BLOCK_AIR, BLOCK_STONE, BLOCK_GLASS} :
                  SetBlock(World, p, block) = World
            /\ GetBlock(World, p) = BLOCK_AIR

\* a SetBlock outside the height of the world, made on a world that holds a
\* chunk, which left the count and the dirty flags as they were
C12_Witness ==
    /\ last.op = "SetBlock"
    /\ OutsideHeight(last.arg.position)
    /\ chunkCount = last.count
    /\ chunkCount > 0
    /\ {i \in Slots : chunks[i].isLoaded /\ chunks[i].needsRegen} = last.dirty

\* SetBlock(p, X) wrote no block: the world is as it was, but for the chunk
\* SetBlock may have loaded on demand
WritesNoBlock(p, block) ==
    SetBlock(World, p, block) \in {World, LoadChunk(World, ChunkOfBlock(p)).world}

BlockGrid(chunk) == <<chunk.blocks, chunk.treeHeights>>

\* C14: terrain generation is deterministic - a chunk that LoadChunk has
\* just generated gets the identical block grid, trunk heights and foliage
\* of its trees included, when it is unloaded and loaded again.
C14_GenerationIsDeterministic ==
    (last.op = "LoadChunk" /\ last.target = NULL /\ last.ret # NULL) =>
        LET reloaded == LoadChunk(UnloadChunk(World, last.ret), last.arg)
        IN BlockGrid(reloaded.world.chunks[reloaded.ret]) = BlockGrid(chunks[last.ret])

(***************************************************************************)
(* Properties of the mesh build.                                           *)
(***************************************************************************)
\* the block across face `face` of cell c of a chunk, as GetBlock returns it
AcrossFace(chunk, c, face) ==
    GetBlock(World, BlockPosOf(chunk.position.x * CHUNK_SIZE + c[1] + faceOffsets[face][1],
                               c[2] + faceOffsets[face][2],
                               chunk.position.z * CHUNK_SIZE + c[3] + faceOffsets[face][3]))

\* a block that goes to the opaque buffer
IsOpaque(block) == block # BLOCK_AIR /\ ~BlockNeedsAlphaBlending(block)

\* the quads of cell c among a set of quads
QuadsOf(quads, c) == {q \in quads : q[1] = c}

\* stored cells that share a face
FaceAdjacent(c, d) == \E face \in 1 .. 6 :
    d = <<c[1] + faceOffsets[face][1], c[2] + faceOffsets[face][2], c[3] + faceOffsets[face][3]>>

\* C15: a mesh build emits the quad of face f of a non-air block iff the
\* block across f, as the world-wide GetBlock returns it, is transparent
\* (air above and below the world and in unloaded chunks); so an opaque
\* block with air on all six sides gives 6 quads of the opaque buffer, and
\* two face-adjacent opaque blocks with air around them give 10.
C15_FaceIffNeighborTransparent ==
    \A i \in LoadedSlots :
        LET chunk == chunks[i]
            emitted == EmitFaces(World, chunk)
            all == emitted.opaque \cup emitted.transparent
            airAround(c, but) ==
                \A face \in 1 .. 6 :
                    \/ <<c[1] + faceOffsets[face][1], c[2] + faceOffsets[face][2],
                          c[3] + faceOffsets[face][3]>> = but
                    \/ AcrossFace(chunk, c, face) = BLOCK_AIR
        IN /\ \A q \in GridCells \X (1 .. 6) :
                 q \in all <=> /\ chunk.blocks[q[1]] # BLOCK_AIR
                               /\ IsBlockTransparent(AcrossFace(chunk, q[1], q[2]))
           /\ \A c \in GridCells :
                 (IsOpaque(chunk.blocks[c]) /\ airAround(c, << >>)) =>
                     /\ Cardinality(QuadsOf(emitted.opaque, c)) = 6
                     /\ QuadsOf(emitted.transparent, c) = {}
           /\ \A c, d \in GridCells :
                 (/\ FaceAdjacent(c, d)
                  /\ IsOpaque(chunk.blocks[c]) /\ IsOpaque(chunk.blocks[d])
                  /\ ~IsBlockTransparent(chunk.blocks[c])
                  /\ ~IsBlockTransparent(chunk.blocks[d])
                  /\ airAround(c, d) /\ airAround(d, c)) =>
                     Cardinality(QuadsOf(emitted.opaque, c) \cup QuadsOf(emitted.opaque, d)) = 10

\* a frame has built the mesh of a chunk that holds a single stone block in
\* the air at the top of the world (24 vertices, 12 triangles of its own)
\* and, in another frame, two stone blocks one on the other
C15_Witness ==
    /\ last.op = "RenderVoxelWorld"
    /\ \E i \in LoadedSlots :
          /\ chunks[i].hasMesh /\ ~chunks[i].needsRegen /\ chunks[i].mesh.live
          /\ chunks[i].blocks[<<0, WORLD_HEIGHT - 1, 0>>] = BLOCK_STONE
          /\ 4 * Cardinality(QuadsOf(chunks[i].mesh.quads, <<0, WORLD_HEIGHT - 1, 0>>)) = 24
          /\ chunks[i].blocks[<<0, WATER_LEVEL + 6, 0>>] = BLOCK_STONE
          /\ chunks[i].blocks[<<0, WATER_LEVEL + 7, 0>>] = BLOCK_STONE
          /\ Cardinality(QuadsOf(chunks[i].mesh.quads, <<0, WATER_LEVEL + 6, 0>>)
                         \cup QuadsOf(chunks[i].mesh.quads, <<0, WATER_LEVEL + 7, 0>>)) = 10

\* C16: in every mesh build a block for which BlockNeedsAlphaBlending holds
\* puts its quads in the transparent buffer only, whatever its neighbours
\* are, and every other non-air block in the opaque buffer only.
C16_AlphaBlocksOnlyInTransparent ==
    \A i \in LoadedSlots :
        LET emitted == EmitFaces(World, chunks[i])
        IN /\ \A q \in emitted.opaque : IsOpaque(chunks[i].blocks[q[1]])
           /\ \A q \in emitted.transparent : BlockNeedsAlphaBlending(chunks[i].blocks[q[1]])
           /\ emitted.opaque \cap emitted.transparent = {}

\* a frame has built the meshes of a chunk with a glass block on a stone
\* block: the glass is in the transparent mesh alone, the stone in the
\* opaque mesh alone
C16_Witness ==
    /\ last.op = "RenderVoxelWorld"
    /\ \E i \in LoadedSlots :
          /\ chunks[i].hasMesh /\ ~chunks[i].needsRegen
          /\ chunks[i].blocks[<<0, WATER_LEVEL + 6, 0>>] = BLOCK_GLASS
          /\ chunks[i].blocks[<<0, WATER_LEVEL + 7, 0>>] = BLOCK_STONE
          /\ QuadsOf(chunks[i].transparentMesh.quads, <<0, WATER_LEVEL + 6, 0>>) # {}
          /\ QuadsOf(chunks[i].mesh.quads, <<0, WATER_LEVEL + 6, 0>>) = {}
          /\ QuadsOf(chunks[i].mesh.quads, <<0, WATER_LEVEL + 7, 0>>) # {}
          /\ QuadsOf(chunks[i].transparentMesh.quads, <<0, WATER_LEVEL + 7, 0>>) = {}

\* C17: for every block id, BlockNeedsAlphaBlending(id) implies
\* IsBlockTransparent(id): a block that goes to the transparent buffer is
\* transparent to the face culling of its neighbours.
C17_AlphaImpliesTransparent ==
    (last.op = "BlockNeedsAlphaBlending" /\ last.ret = TRUE) => IsBlockTransparent(last.arg)

\* BlockNeedsAlphaBlending has been applied to ice and returned true
C17_Witness ==
    last.op = "BlockNeedsAlphaBlending" /\ last.arg = BLOCK_ICE /\ last.ret = TRUE

\* a buffer of a chunk that the draw passes of a frame would draw
DrawsOpaque(chunk) ==
    chunk.isLoaded /\ chunk.isVisible /\ chunk.hasMesh /\ chunk.vertexCount > 0
DrawsTransparent(chunk) ==
    chunk.isLoaded /\ chunk.isVisible /\ chunk.hasMesh /\ chunk.transparentVertexCount > 0

\* C18: after GenerateChunkMesh on a chunk in any prior mesh state, the
\* stored counts of each buffer are 4 and 2 times the faces this build
\* emitted into it (zero when none), and a buffer that can be drawn is the
\* one this build produced.
C18_CountsMatchThisBuild ==
    \A i \in LoadedSlots :
        LET emitted == EmitFaces(World, chunks[i])
            built == [GenerateChunkMesh(World, i).chunks[i] EXCEPT !.isVisible = TRUE]
        IN /\ built.vertexCount = 4 * Cardinality(emitted.opaque)
           /\ built.triangleCount = 2 * Cardinality(emitted.opaque)
           /\ built.transparentVertexCount = 4 * Cardinality(emitted.transparent)
           /\ built.transparentTriangleCount = 2 * Cardinality(emitted.transparent)
           /\ DrawsOpaque(built) => built.mesh = Mesh(emitted.opaque)
           /\ DrawsTransparent(built) => built.transparentMesh = Mesh(emitted.transparent)

(***************************************************************************)
(* Properties of the cull and the sort of a frame.                         *)
(***************************************************************************)
\* the centre of a chunk, as the cull takes it
ChunkCenter(chunk) ==
    LET chunkWorldPos == ChunkToWorld(chunk.position)
    IN Vec3(chunkWorldPos.x + CHUNK_SIZE \div 2, WORLD_HEIGHT \div 2,
            chunkWorldPos.z + CHUNK_SIZE \div 2)

\* C19: after the cull step of a frame every loaded chunk is visible iff
\* its horizontal (x-z) distance from the observer is within
\* RENDER_DISTANCE * CHUNK_SIZE, whatever the height of the observer.
C19_VisibleIffWithinHorizontalRadius ==
    last.op = "RenderVoxelWorld" =>
        \A i \in LoadedSlots :
            chunks[i].isVisible <=>
                Distance2DSq(last.arg, ChunkCenter(chunks[i]))
                    <= (RENDER_DISTANCE * CHUNK_SIZE) * (RENDER_DISTANCE * CHUNK_SIZE)

\* C20: after SortChunksByDistance(world, pos), for any arrangement of
\* loaded and empty slots, the loaded chunks are in ascending order of the
\* distance from pos to their origin: no loaded slot i < j holds a chunk
\* farther than that of j.
C20_LoadedSortedByDistance ==
    \A pos \in Cameras :
        LET sorted == SortChunksByDistance(World, pos).chunks
        IN \A i, j \in LoadedSlots :
              i < j => Distance2DSq(pos, ChunkToWorld(sorted[i].position))
                         <= Distance2DSq(pos, ChunkToWorld(sorted[j].position))

(***************************************************************************)
(* Properties of a frame.                                                  *)
(***************************************************************************)
\* C22: in every frame every loaded chunk that is dirty is rebuilt before
\* any chunk is drawn: when RenderVoxelWorld reaches its draw passes (which
\* change nothing, so this is the world it returns with) no loaded chunk has
\* needsRegen set.
C22_NoDirtyAtDraw ==
    last.op = "RenderVoxelWorld" => \A i \in LoadedSlots : ~chunks[i].needsRegen

\* a frame drawn from high above over two chunks that were dirty: both are
\* culled, and both have been rebuilt
C22_Witness ==
    /\ last.op = "RenderVoxelWorld"
    /\ Cardinality(last.dirty) >= 2
    /\ \A i \in LoadedSlots : ~chunks[i].isVisible /\ chunks[i].hasMesh

(***************************************************************************)
(* Properties of the block catalog.                                        *)
(***************************************************************************)
\* C24: the block catalog is total.  For every block id, also one outside
\* 0 .. BLOCK_COUNT-1 and one of the enum without a texture case,
\* IsBlockSolid, IsBlockTransparent, BlockNeedsAlphaBlending and the texture
\* lookup return a result; an id outside the enum gets solid, not
\* transparent, no alpha blending and the texture "stone", and an id of the
\* enum without a texture case gets "stone".
C24_CatalogTotal ==
    LET EnumBlocks == 0 .. (BLOCK_COUNT - 1)
        TexturedBlocks ==
            {TextureCases[k][1] : k \in DOMAIN TextureCases}
                \cup {FaceTextureCases[k].block : k \in DOMAIN FaceTextureCases}
        TextureNames ==
            {"stone"} \cup {TextureCases[k][2] : k \in DOMAIN TextureCases}
                \cup UNION {{FaceTextureCases[k].top, FaceTextureCases[k].bottom,
                             FaceTextureCases[k].front, FaceTextureCases[k].side} :
                            k \in DOMAIN FaceTextureCases}
    IN
    /\ last.op \in {"IsBlockSolid", "IsBlockTransparent", "BlockNeedsAlphaBlending"}
          => /\ last.ret \in BOOLEAN
             /\ last.arg \notin EnumBlocks => last.ret = (last.op = "IsBlockSolid")
    /\ last.op = "GetBlockTextureUV"
          => /\ last.ret \in TextureNames
             /\ last.arg[1] \notin TexturedBlocks => last.ret = "stone"

\* IsBlockSolid has been applied to the id after the last block of the enum
C24_Witness ==
    last.op = "IsBlockSolid" /\ last.arg = BLOCK_COUNT /\ last.ret = TRUE

(***************************************************************************)
(* Properties of the generated terrain.                                    *)
(***************************************************************************)
\* Column (x, z) of a chunk as GenerateChunk wrote it ends as the scenario
\* of the generator asserts: its topmost block that is not air is dirt or
\* water when the terrain height is at or below the water line, and grass
\* when it is above.
SurfaceAsClaimed(chunk, x, z) ==
    LET Block(y) == GeneratedBlock(chunk.position, chunk.treeHeights, x, y, z)
        top == Max({y \in 0 .. (WORLD_HEIGHT - 1) : Block(y) # BLOCK_AIR})
        height == TerrainTop(IntAdd(IntMulChunk(chunk.position.x), x),
                             IntAdd(IntMulChunk(chunk.position.z), z))
    IN IF height > WATER_LEVEL THEN Block(top) = BLOCK_GRASS
       ELSE Block(top) \in {BLOCK_DIRT, BLOCK_WATER}

\* a tree of the chunk stands on column (x, z) or its foliage hangs over it;
\* the columns looked at below are the tree columns of the stand-in terrain,
\* the columns around them, and columns away from any tree
TreeReaches(chunk, x, z) ==
    \E k \in 1 .. Len(TreeSites(chunk.position)) :
        /\ Abs(x - TreeSites(chunk.position)[k][1]) <= 1
        /\ Abs(z - TreeSites(chunk.position)[k][2]) <= 1

\* C25 as stated: after GenerateChunk of a chunk, every column at or below
\* the water line has dirt or water as its topmost non-air block and every
\* column above it has grass.
C25_EveryColumnEndsInSurface ==
    (last.op = "LoadChunk" /\ last.target = NULL /\ last.ret # NULL)
        => \A c \in {0, 1, 2, 11, 12, 13, 15} \X {0, 1, 2, 15} :
              SurfaceAsClaimed(chunks[last.ret], c[1], c[2])

\* C25, amended: after GenerateChunk of a chunk, every column that no tree
\* of the chunk stands on or hangs over has dirt or water as its topmost
\* non-air block when its terrain height is at or below the water line, and
\* grass when it is above.
C25_TreelessColumnEndsInSurface ==
    (last.op = "LoadChunk" /\ last.target = NULL /\ last.ret # NULL)
        => \A c \in {0, 1, 2, 11, 12, 13, 15} \X {0, 1, 2, 15} :
              ~TreeReaches(chunks[last.ret], c[1], c[2])
                  => SurfaceAsClaimed(chunks[last.ret], c[1], c[2])

\* a chunk has been generated with a tree on its column (0, 0), which ends
\* in foliage, while its column (2, 0), above the water line and out of the
\* tree's reach, ends in grass
C25_Witness ==
    /\ last.op = "LoadChunk" /\ last.target = NULL /\ last.ret # NULL
    /\ TreeReaches(chunks[last.ret], 0, 0)
    /\ ~SurfaceAsClaimed(chunks[last.ret], 0, 0)
    /\ ~TreeReaches(chunks[last.ret], 2, 0)
    /\ TerrainTop(IntAdd(IntMulChunk(chunks[last.ret].position.x), 2),
                  IntMulChunk(chunks[last.ret].position.z)) > WATER_LEVEL
    /\ SurfaceAsClaimed(chunks[last.ret], 2, 0)

(***************************************************************************)
(* Properties of the meshes against the world.                             *)
(***************************************************************************)
\* C26: mesh freshness.  In every reachable state a loaded chunk with
\* needsRegen = false has the geometry the mesh build would emit from the
\* world as it is now, its own blocks and the blocks GetBlock returns across
\* its boundaries; so loading or unloading a face-adjacent chunk marks the
\* chunk dirty.
C26_CleanMeshIsFresh ==
    \A i \in LoadedSlots :
        ~chunks[i].needsRegen
            => /\ chunks[i].mesh.quads = EmitFaces(World, chunks[i]).opaque
               /\ chunks[i].transparentMesh.quads = EmitFaces(World, chunks[i]).transparent

(***************************************************************************)
(* Properties of streaming around an observer.                             *)
(***************************************************************************)
\* C27: a failed load is only "not yet available".  With the observer fixed,
\* finitely many further UpdateVoxelWorld calls load every chunk coordinate
\* within RENDER_DISTANCE * CHUNK_SIZE of it.  UpdateVoxelWorld is a function
\* of the world and the position, so once a call at the observer's position
\* returns the world it was given, every later call does; by then every
\* coordinate in the load radius has to be loaded.
C27_FixedObserverLoadsAll ==
    (last.op = "UpdateVoxelWorld" /\ UpdateVoxelWorld(World, last.arg) = World)
        => \A c \in Around(last.arg) :
              InLoadRadius(last.arg, c) => GetChunk(World, c) # NULL

\* C29: hysteresis.  The evict radius is larger than the load radius: a
\* chunk the load pass of an UpdateVoxelWorld call has loaded, or has found
\* loaded within RENDER_DISTANCE * CHUNK_SIZE of the observer, is not
\* unloaded by the evict pass of the same call, and not by another
\* UpdateVoxelWorld at the same position.
C29_Hysteresis ==
    /\ EvictDistance > RENDER_DISTANCE * CHUNK_SIZE
    /\ \A pos \in PlayerPositions :
          LET loaded == LoadChunksAroundPlayer([World EXCEPT !.playerPosition = pos], pos)
              evicted == UnloadDistantChunks(loaded, pos)
              again == UpdateVoxelWorld(evicted, pos)
          IN \A i \in Slots :
                (/\ loaded.chunks[i].isLoaded
                 /\ InLoadRadius(pos, loaded.chunks[i].position))
                    => /\ evicted.chunks[i] = loaded.chunks[i]
                       /\ again.chunks[i] = loaded.chunks[i]

\* an UpdateVoxelWorld that evicted a chunk beyond the evict radius and kept
\* the chunks it had loaded around the observer, all of them
C29_Witness ==
    /\ last.op = "UpdateVoxelWorld"
    /\ last.target # NULL
    /\ ~chunks[last.target].isLoaded
    /\ \A c \in Around(last.arg) : InLoadRadius(last.arg, c) => GetChunk(World, c) # NULL
    /\ UpdateVoxelWorld(World, last.arg) = World

C21_LoadBeforePhysics ==
    /\ (last.op = "InitGameplayScreen" /\ last.ret = TRUE)
          => /\ \E k \in DOMAIN game.calls : game.calls[k] = "LoadChunksAroundPlayer"
             /\ \A k \in DOMAIN game.calls : game.calls[k] # "UpdatePlayer"
             /\ \A c \in Around(Vec3(0, 100, 0)) :
                   InLoadRadius(Vec3(0, 100, 0), c) => GetChunk(World, c) # NULL
    /\ last.op # "UpdateGameplayScreen"
          => \A k \in DOMAIN game.calls : game.calls[k] # "UpdatePlayer"
    /\ last.op = "UpdateGameplayScreen"
          => /\ \A k \in DOMAIN game.calls :
                   game.calls[k] = "UpdatePlayer"
                       => \E j \in 1 .. (k - 1) : game.calls[j] = "UpdateVoxelWorld"
             /\ (~game.gamePaused /\ last.arg.key # "enter")
                   => \E k \in DOMAIN game.calls : game.calls[k] = "UpdatePlayer"

\* the first tick of a second session: the screen was entered, left and
\* entered again, and the tick has updated the world and then the player
\* over a loaded chunk
C21_Witness ==
    /\ last.op = "UpdateGameplayScreen"
    /\ game.sessions = 2
    /\ game.calls = <<"UpdateVoxelWorld", "UpdatePlayer">>
    /\ game.underfoot
    /\ game.position = Vec3(-(CHUNK_SIZE - 1), 100, 0)

\* C23: in every state reached through InitVoxelWorld, LoadChunk,
\* UnloadChunk, SetBlock, UpdateVoxelWorld, RenderVoxelWorld and
\* UnloadVoxelWorld, a slot with isLoaded = false holds no geometry: hasMesh
\* and isVisible are false and its opaque and transparent vertex and
\* triangle counts are zero.
C23_UnloadedSlotHoldsNoGeometry ==
    \A i \in Slots :
        ~chunks[i].isLoaded
            => /\ ~chunks[i].hasMesh
               /\ ~chunks[i].isVisible
               /\ chunks[i].vertexCount = 0
               /\ chunks[i].triangleCount = 0
               /\ chunks[i].transparentVertexCount = 0
               /\ chunks[i].transparentTriangleCount = 0

\* C28: at every UpdatePlayer, called after UpdateVoxelWorld in the same
\* tick, the chunk containing the player's position is loaded, on every path
\* that moves less than a chunk edge per tick.
C28_ChunkUnderfootLoaded ==
    (last.op = "UpdateGameplayScreen" /\ game.calls = <<"UpdateVoxelWorld", "UpdatePlayer">>)
        => game.underfoot

(***************************************************************************)
(* Properties of reloads, buffers and slots.                               *)
(***************************************************************************)
\* C31: a chunk that received SetBlock edits, was unloaded and is loaded
\* again holds freshly generated terrain: every stored cell is what
\* GenerateChunk writes there with the trunk heights this generation drew,
\* and GetBlock at every edited position of the chunk returns the generated
\* block, not the edit.
C31_ReloadIsFreshTerrain ==
    (last.op = "LoadChunk" /\ last.target = NULL /\ last.ret # NULL) =>
        LET chunk == chunks[last.ret]
        IN /\ \A c \in GridCells :
                 chunk.blocks[c] =
                     GeneratedBlock(chunk.position, chunk.treeHeights, c[1], c[2], c[3])
           /\ \A e \in Edits :
                 (IsValidBlockPosition(e.position) /\ OwnerChunk(e.position) = last.arg
                  /\ ChunkOfBlock(e.position) = last.arg) =>
                     GetBlock(World, e.position) =
                         GeneratedBlock(chunk.position, chunk.treeHeights,
                                        e.position.x % CHUNK_SIZE, e.position.y,
                                        e.position.z % CHUNK_SIZE)

\* chunk (0, 0), which the first call of the run loaded with an edit in its
\* corner column, was absent and has been loaded again: the water is back
C31_Witness ==
    /\ last.op = "LoadChunk"
    /\ last.arg = ChunkPosOf(0, 0)
    /\ last.target = NULL
    /\ last.ret # NULL
    /\ GetBlock(World, BlockPosOf(0, WATER_LEVEL, 0)) = BLOCK_WATER
    /\ TerrainBlock(0, WATER_LEVEL, 0) = BLOCK_WATER

\* C32: geometry buffers are released exactly once.  In every state the
\* meshes that the next rebuild of a loaded chunk unloads, and the meshes
\* that its unload unloads, are exactly the meshes the chunk holds uploaded:
\* none stays allocated after it, none is unloaded that the latest build did
\* not create.  A slot that is not loaded holds no uploaded mesh.
C32_BuffersReleasedOnce ==
    \A i \in Slots :
        LET chunk == chunks[i]
            allocated == {b \in {"mesh"} : chunk.mesh.live}
                             \cup {b \in {"transparentMesh"} : chunk.transparentMesh.live}
        IN IF chunk.isLoaded
              THEN /\ ReleasedBuffers(chunk, FALSE) = allocated
                   /\ ReleasedBuffers(chunk, TRUE) = allocated
              ELSE allocated = {}

\* C33: the six indices of every quad of an array, up to the last quad the
\* array has room for, are b, b+1, b+2, b, b+2, b+3, where b is the place of
\* the quad's first vertex in the array (four vertices per quad before it).
C33_IndicesNameOwnQuad ==
    last.op = "AddFaceToMesh" =>
        LET b == 4 * last.arg
        IN last.ret = <<b, b + 1, b + 2, b, b + 2, b + 3>>

\* C34: the life of a slot, call by call.  A slot that was empty and is
\* loaded has just been claimed by LoadChunk, called by hand, by SetBlock or
\* by the load pass: it is dirty, has no mesh, is not visible and its counts
\* are zero, whatever the slot held before.  A chunk that had no mesh has
\* one only after a frame, and it was loaded and dirty before the frame and
\* is loaded after it (the frame sorts the chunks into other slots).  A
\* loaded slot becomes empty only in UnloadVoxelWorld, in UnloadChunk on its
\* index, or in the UnloadChunk calls of UpdateVoxelWorld on a chunk beyond
\* the evict distance of the observer.
C34_SlotLifecycle ==
    [][\A i \in Slots :
          /\ (~chunks[i].isLoaded /\ chunks'[i].isLoaded) =>
                /\ chunks'[i].needsRegen
                /\ ~chunks'[i].hasMesh
                /\ ~chunks'[i].isVisible
                /\ chunks'[i].vertexCount = 0 /\ chunks'[i].triangleCount = 0
                /\ chunks'[i].transparentVertexCount = 0
                /\ chunks'[i].transparentTriangleCount = 0
                /\ last'.op \in {"LoadChunk", "SetBlock", "UpdateVoxelWorld"}
          /\ (chunks'[i].hasMesh
                /\ \A j \in Slots : ~ (/\ chunks[j].isLoaded /\ chunks[j].hasMesh
                                       /\ chunks[j].position = chunks'[i].position)) =>
                /\ last'.op = "RenderVoxelWorld"
                /\ chunks'[i].isLoaded
                /\ \E j \in Slots : /\ chunks[j].isLoaded /\ chunks[j].needsRegen
                                    /\ chunks[j].position = chunks'[i].position
          /\ (chunks[i].isLoaded /\ ~chunks'[i].isLoaded) =>
                \/ last'.op = "UnloadVoxelWorld"
                \/ last'.op = "UnloadChunk" /\ last'.arg = i
                \/ /\ last'.op = "UpdateVoxelWorld"
                   /\ Distance2DSq(last'.arg, ChunkToWorld(chunks[i].position))
                        > EvictDistance * EvictDistance]_vars

\* a slot whose chunk had a mesh and was visible when the world was unloaded
\* has been claimed for another chunk
C34_Witness ==
    /\ last.op = "LoadChunk" /\ last.target = NULL /\ last.ret # NULL
    /\ last.count = 0
    /\ LET c == chunks[last.ret]
       IN /\ c.isLoaded /\ c.needsRegen /\ ~c.hasMesh /\ ~c.isVisible
          /\ c.vertexCount = 0 /\ c.transparentVertexCount = 0
          /\ ~c.transparentMesh.live /\ c.transparentMesh.quads # {}

C36_SetBlockFrame ==
    \A e \in Edits :
        LET p == e.position
            w == SetBlock(World, p, e.block)
            owner == OwnerChunk(p)
            ownerSlot == GetChunk(World, owner)
            cell == <<p.x - owner.x * CHUNK_SIZE, p.y, p.z - owner.z * CHUNK_SIZE>>
        IN /\ \A i \in LoadedSlots :
                 /\ [w.chunks[i] EXCEPT !.needsRegen = chunks[i].needsRegen,
                                        !.blocks = chunks[i].blocks] = chunks[i]
                 /\ \A g \in GridCells :
                       w.chunks[i].blocks[g] # chunks[i].blocks[g]
                           => i = ownerSlot /\ g = cell
                 /\ w.chunks[i].needsRegen # chunks[i].needsRegen
                       => /\ w.chunks[i].needsRegen
                          /\ Abs(chunks[i].position.x - owner.x)
                               + Abs(chunks[i].position.z - owner.z) <= 1
           /\ w.chunkCount \in {chunkCount, chunkCount + 1}
           /\ w.playerPosition = playerPosition
           /\ \A i \in Slots \ LoadedSlots :
                 w.chunks[i] # chunks[i]
                     => /\ ownerSlot = NULL
                        /\ w.chunkCount = chunkCount + 1
                        /\ i = GetChunk(w, owner)

\* C37: GetBlock is a query.  Every GetBlock call leaves the world as it
\* was: no slot changes (no chunk is loaded, no dirty flag is set), and
\* chunkCount, the observer position and the random stream stay the same -
\* for positions in loaded chunks, in chunks that are not loaded, outside
\* the vertical bound and at the ends of the int range.
C37_GetBlockIsPure ==
    [][last'.op = "GetBlock" =>
          /\ chunks' = chunks
          /\ chunkCount' = chunkCount
          /\ playerPosition' = playerPosition
          /\ randCalls' = randCalls]_vars

\* a GetBlock at a valid height in a chunk that is not loaded, in a world
\* that holds another chunk: it returned air and the chunk is still absent
C37_Witness ==
    /\ last.op = "GetBlock"
    /\ IsValidBlockPosition(last.arg)
    /\ last.target = NULL
    /\ last.ret = BLOCK_AIR
    /\ GetChunk(World, ChunkOfBlock(last.arg)) = NULL
    /\ chunkCount = last.count
    /\ chunkCount > 0

\* C38: generating a chunk writes into the block grid of that chunk alone.
\* Every cell PlaceTree writes for a tree of a chunk just generated has its
\* local x and z in 0 .. CHUNK_SIZE - 1 and its y in 0 .. WORLD_HEIGHT - 1,
\* also for a tree on the edge of the chunk, and for a tree placed at any
\* corner column and any height up to the top of the world; the logs and
\* leaves the chunk holds are among those cells; and a LoadChunk of any
\* coordinate leaves the record of every chunk that was loaded, its blocks
\* included, as it was.
C38_GenerationWritesOwnGrid ==
    LET Grid == (0 .. (CHUNK_SIZE - 1)) \X (0 .. (WORLD_HEIGHT - 1)) \X (0 .. (CHUNK_SIZE - 1))
        Written(chunk, k) ==
            LET site == TreeSites(chunk.position)[k]
            IN PlaceTree(site[1],
                         TerrainTop(IntAdd(IntMulChunk(chunk.position.x), site[1]),
                                    IntAdd(IntMulChunk(chunk.position.z), site[2])) + 1,
                         site[2], chunk.treeHeights[k])
    IN /\ (last.op = "LoadChunk" /\ last.target = NULL /\ last.ret # NULL) =>
             LET chunk == chunks[last.ret]
             IN /\ \A k \in 1 .. Len(chunk.treeHeights) : Written(chunk, k) \subseteq Grid
                /\ \A g \in GridCells :
                      chunk.blocks[g] \in {BLOCK_OAK_LOG, BLOCK_OAK_LEAVES}
                          => \E k \in 1 .. Len(chunk.treeHeights) : g \in Written(chunk, k)
       /\ \A x \in {0, CHUNK_SIZE - 1}, z \in {0, CHUNK_SIZE - 1},
             y \in {1, WORLD_HEIGHT - 7, WORLD_HEIGHT - 1, WORLD_HEIGHT},
             treeHeight \in 4 .. 6 :
             PlaceTree(x, y, z, treeHeight) \subseteq Grid
       /\ \A c \in LoadCoords :
             \A i \in LoadedSlots : LoadChunk(World, c).world.chunks[i] = chunks[i]

\* a chunk with a tree on its corner column (0, 0), whose foliage is cut at
\* two edges of the chunk, has been generated next to loaded chunks, and the
\* tree's log or leaves are in the cell above the column
C38_Witness ==
    /\ last.op = "LoadChunk" /\ last.target = NULL /\ last.ret # NULL
    /\ last.count > 0
    /\ Len(chunks[last.ret].treeHeights) > 0
    /\ TreeSites(chunks[last.ret].position)[1] = <<0, 0>>
    /\ chunks[last.ret].blocks[<<0, WATER_LEVEL + 6, 0>>]
           \in {BLOCK_OAK_LOG, BLOCK_OAK_LEAVES}
    /\ \A i \in LoadedSlots \ {last.ret} : chunks[i].position # chunks[last.ret].position

====
